---- MODULE Spec2Model ----
(***************************************************************************)
(* Request-handling pipeline of actix-web: the Handler service, the        *)
(* FromRequest combinators (tuple, Option, Result, Either) and the Form    *)
(* (urlencoded) extractor.                                                 *)
(*                                                                         *)
(* A body is a sequence of chunks; a chunk is a sequence of tokens or a    *)
(* payload error.  A token stands for a block of bytes of a given size     *)
(* (Weight), so that bodies larger than the decoder limits are in reach.   *)
(***************************************************************************)
EXTENDS Integers, Sequences, FiniteSets, TLC

VARIABLES
    factory,    \* the Handler as built by Handler::new (ServiceFactory)
    service,    \* the Handler returned by new_service (Service)
    pc,         \* position of the serving loop / of the future of call
    lastPoll,   \* what poll_ready last reported
    req,        \* HttpRequest part of the ServiceRequest being served
    payload,    \* Payload part: the handle handed to the extractors
    k,          \* tuple member to extract next
    items,      \* tuple_from_req: members extracted so far
    nodes,      \* call tree of each member extraction done so far
    exres,      \* outcome of T::from_request
    responder,  \* value returned by the application function
    invoked,    \* number of times the application function ran in this call
    result,     \* output of the future of Handler::call
    failed,     \* some earlier call of this service ended in an error response
    compress,   \* the Compress transform
    cmw,        \* the CompressMiddleware it built
    cpc,        \* position of the CompressMiddleware's caller
    cpoll,      \* what CompressMiddleware::poll_ready returned last
    creq,       \* Accept-Encoding header of the request in CompressMiddleware::call
    cneg,       \* the negotiation: candidates collected, sorted, encoding returned
    cinner,     \* output of the inner service's future
    cout,       \* output of the future of CompressMiddleware::call
    condition,  \* the Condition transform
    dsvc,       \* the service handed to Condition::new_transform
    dmw,        \* output of the future of Condition::new_transform
    dpc,        \* position of the ConditionMiddleware's caller
    dpoll,      \* what ConditionMiddleware::poll_ready returned last
    dreq,       \* request in ConditionMiddleware::call
    dout,       \* output of the future of ConditionMiddleware::call
    dfailed,    \* some earlier call or readiness check of this wrapper failed
    dran,       \* number of times the inner Transform's new_transform was run
    custom,     \* the CustomResponder under construction
    rpc,        \* position of the code building and realizing the responder
    rcalls,     \* the with_status and with_header calls made so far, in order
    rout,       \* output of the future of CustomResponder::respond_to
    pipe,       \* the service at the top of a chain of wrappers
    ppc,        \* position of the chain's caller
    ppoll,      \* the last poll_ready of the chain: inner answer, answer, the one before
    preq,       \* request given to the chain
    plog,       \* events of the current request, in order
    pout,       \* output of the future of the chain's call
    form,       \* a Form value and the app data of the request it comes back in
    tpc,        \* position of the round trip: value, responded, extracted
    tresp,      \* output of Form's respond_to
    tback,      \* the extraction of the response's body as a Form
    heap,       \* the services held in an Rc, by address
    handles,    \* the CloneableService handles in use
    polls,      \* what poll_ready last answered through each handle
    futs        \* the futures returned by call, in the order of the calls

hvars == <<factory, service, pc, lastPoll, req, payload, k, items, nodes,
           exres, responder, invoked, result, failed>>
cvars == <<compress, cmw, cpc, cpoll, creq, cneg, cinner, cout>>
dvars == <<condition, dsvc, dmw, dpc, dpoll, dreq, dout, dfailed, dran>>
rvars == <<custom, rpc, rcalls, rout>>
pvars == <<pipe, ppc, ppoll, preq, plog, pout>>

tvars == <<form, tpc, tresp, tback>>
xvars == <<heap, handles, polls, futs>>
vars == <<hvars, cvars, dvars, rvars, pvars, tvars, xvars>>

----------------------------------------------------------------------------
(* Bounds and input sets *)

MaxChunks == 2

DefaultLimit == 16384
HardLimit == 32768
PayloadLimit == 262144

Weight(tok) == IF tok = "B" THEN 40000 ELSE 1

RECURSIVE Size(_)
Size(data) == IF data = <<>> THEN 0 ELSE Weight(Head(data)) + Size(Tail(data))

DataChunk(d) == [err |-> FALSE, data |-> d]
PayloadErr == [err |-> TRUE, data |-> <<>>]

Chunks == {DataChunk(<<"h">>), DataChunk(<<"B">>), PayloadErr}

RECURSIVE SeqsUpTo(_, _)
SeqsUpTo(S, n) ==
    IF n = 0 THEN {<<>>}
    ELSE LET shorter == SeqsUpTo(S, n - 1)
         IN  shorter \cup {Append(s, c) : s \in shorter, c \in S}

Bodies == SeqsUpTo(Chunks, MaxChunks)

FormMime == "application/x-www-form-urlencoded"

ContentTypes ==
    { [mime |-> "application/x-www-form-urlencoded", charset |-> "none"],
      [mime |-> "Application/X-WWW-Form-UrlEncoded", charset |-> "none"],
      [mime |-> "text/plain", charset |-> "none"],
      [mime |-> "application/x-www-form-urlencoded", charset |-> "bogus"] }

NoLen == [present |-> FALSE, text |-> "", n |-> 0]
BadLen == [present |-> TRUE, text |-> "xxxx", n |-> 0]
NumLen(n) == [present |-> TRUE, text |-> "digits", n |-> n]

ContentLengths == {NoLen, BadLen, NumLen(1), NumLen(3), NumLen(40000)}

NoConfig == [set |-> FALSE, limit |-> 0, err_handler |-> FALSE]
FormConfig(limit, h) == [set |-> TRUE, limit |-> limit, err_handler |-> h]

AppDatas ==
    { [bare |-> NoConfig, data |-> NoConfig],
      [bare |-> FormConfig(1, TRUE), data |-> NoConfig],
      [bare |-> NoConfig, data |-> FormConfig(50000, TRUE)],
      [bare |-> FormConfig(1, FALSE), data |-> FormConfig(50000, TRUE)] }

Requests ==
    [ content_type : ContentTypes, content_length : ContentLengths,
      app_data : AppDatas, body : Bodies ]

----------------------------------------------------------------------------
(* Results, values and errors *)

Ok(v) == [ok |-> TRUE, v |-> v]
Err(e) == [ok |-> FALSE, e |-> e]

PayloadNone == [kind |-> "None", chunks |-> <<>>]
PayloadStream(cs) == [kind |-> "Stream", chunks |-> cs]

Overflow(size, limit) == [t |-> "Overflow", size |-> size, limit |-> limit]
UrlErr(t) == [t |-> t]

Node(ty, in, out, pl, polled, kids) ==
    [ty |-> ty, in |-> in, out |-> out, pl |-> pl, polled |-> polled, kids |-> kids]

----------------------------------------------------------------------------
(* HttpRequest accessors used by the extractors *)

to_lowercase(s) ==
    IF s = "Application/X-WWW-Form-UrlEncoded" THEN "application/x-www-form-urlencoded" ELSE s

content_type(r) == r.content_type.mime

encoding(r) ==
    CASE r.content_type.charset = "none"  -> Ok([name |-> "utf-8"])
      [] r.content_type.charset = "utf-8" -> Ok([name |-> "utf-8"])
      [] r.content_type.charset = "latin1" -> Ok([name |-> "windows-1252"])
      [] OTHER -> Err(UrlErr("ContentType"))

take(pl) == [stream |-> pl, pl |-> PayloadNone]

----------------------------------------------------------------------------
(* types/form.rs: UrlEncoded and Form *)

NoLength == [some |-> FALSE, n |-> 0]
SomeLength(n) == [some |-> TRUE, n |-> n]

UrlEncodedError(e) == [kind |-> "Error", e |-> e]
UrlEncodedBody(stream, limit, length, enc) ==
    [kind |-> "Body", stream |-> stream, limit |-> limit, length |-> length, encoding |-> enc]

UrlEncoded_new_keeps_payload(r, pl) ==
    IF to_lowercase(content_type(r)) # FormMime \/ ~encoding(r).ok
    THEN [fut |-> UrlEncodedError(UrlErr("ContentType")), pl |-> pl]
    ELSE LET l == r.content_length IN
         IF l.present /\ l.text # "digits"
         THEN [fut |-> UrlEncodedError(UrlErr("UnknownLength")), pl |-> pl]
         ELSE IF l.present /\ l.n > HardLimit
         THEN [fut |-> UrlEncodedError(Overflow(l.n, HardLimit)), pl |-> pl]
         ELSE [fut |-> UrlEncodedBody(take(pl).stream, HardLimit,
                                      IF l.present THEN SomeLength(l.n) ELSE NoLength,
                                      encoding(r).v),
               pl |-> pl]

UrlEncoded_new_take_first(r, pl) ==
    IF to_lowercase(content_type(r)) # FormMime \/ ~encoding(r).ok
    THEN [fut |-> UrlEncodedError(UrlErr("ContentType")), pl |-> take(pl).pl]
    ELSE LET l == r.content_length IN
         IF l.present /\ l.text # "digits"
         THEN [fut |-> UrlEncodedError(UrlErr("UnknownLength")), pl |-> take(pl).pl]
         ELSE IF l.present /\ l.n > HardLimit
         THEN [fut |-> UrlEncodedError(Overflow(l.n, HardLimit)), pl |-> take(pl).pl]
         ELSE [fut |-> UrlEncodedBody(take(pl).stream, HardLimit,
                                      IF l.present THEN SomeLength(l.n) ELSE NoLength,
                                      encoding(r).v),
               pl |-> take(pl).pl]

UrlEncoded_new_length_first(r, pl) ==
    LET l == r.content_length IN
    IF l.present /\ l.text # "digits"
    THEN [fut |-> UrlEncodedError(UrlErr("UnknownLength")), pl |-> pl]
    ELSE IF l.present /\ l.n > HardLimit
    THEN [fut |-> UrlEncodedError(Overflow(l.n, HardLimit)), pl |-> pl]
    ELSE IF to_lowercase(content_type(r)) # FormMime \/ ~encoding(r).ok
    THEN [fut |-> UrlEncodedError(UrlErr("ContentType")), pl |-> pl]
    ELSE [fut |-> UrlEncodedBody(take(pl).stream, HardLimit,
                                 IF l.present THEN SomeLength(l.n) ELSE NoLength,
                                 encoding(r).v),
          pl |-> take(pl).pl]

\* UrlEncoded::new: header validation, then the payload is taken.
UrlEncoded_new(r, pl) ==
    IF to_lowercase(content_type(r)) # FormMime
    THEN [fut |-> UrlEncodedError(UrlErr("ContentType")), pl |-> pl]
    ELSE IF ~encoding(r).ok
    THEN [fut |-> UrlEncodedError(UrlErr("ContentType")), pl |-> pl]
    ELSE LET l == r.content_length IN
         IF l.present /\ l.text # "digits"
         THEN [fut |-> UrlEncodedError(UrlErr("UnknownLength")), pl |-> pl]
         ELSE IF l.present /\ l.n > HardLimit
         THEN [fut |-> UrlEncodedError(Overflow(l.n, HardLimit)), pl |-> pl]
         ELSE [fut |-> UrlEncodedBody(take(pl).stream, HardLimit,
                                      IF l.present THEN SomeLength(l.n) ELSE NoLength,
                                      encoding(r).v),
               pl |-> take(pl).pl]

\* UrlEncoded::limit: replaces the limit, rejecting a declared length over it.
UrlEncoded_limit(fut, limit) ==
    IF fut.kind = "Body"
    THEN IF fut.length.some /\ fut.length.n > limit
         THEN UrlEncodedError(Overflow(fut.length.n, limit))
         ELSE UrlEncodedBody(fut.stream, limit, fut.length, fut.encoding)
    ELSE fut

\* serde_urlencoded on the accumulated bytes: the target structure has one
\* required field, given by a leading "h" token; the rest is its value.
Deserialize(buf) ==
    IF buf # <<>> /\ Head(buf) = "h"
    THEN Ok([hello |-> Tail(buf)])
    ELSE Err(UrlErr("Parse"))

Decode(enc, buf) == Deserialize(buf)

Exceeds_inclusive(buflen, chunklen, limit) == (buflen + chunklen) >= limit

Exceeds(buflen, chunklen, limit) == (buflen + chunklen) > limit

\* Future for UrlEncoded::poll, Body arm: the loop over the stream's chunks.
\* polled holds the chunks poll_next has delivered so far.
RECURSIVE poll_body(_, _, _, _, _)
poll_body(chunks, limit, enc, buf, polled) ==
    IF chunks = <<>>
    THEN [out |-> Decode(enc, buf), polled |-> polled]
    ELSE LET chunk == Head(chunks)
             seen == Append(polled, chunk)
         IN  IF chunk.err
             THEN [out |-> Err(UrlErr("Payload")), polled |-> seen]
             ELSE IF Exceeds(Size(buf), Size(chunk.data), limit)
             THEN [out |-> Err(Overflow(Size(buf) + Size(chunk.data), limit)),
                   polled |-> seen]
             ELSE poll_body(Tail(chunks), limit, enc, buf \o chunk.data, seen)

UrlEncoded_poll_to_declared(fut) ==
    IF fut.kind = "Error"
    THEN [out |-> Err(fut.e), polled |-> <<>>]
    ELSE poll_body(fut.stream.chunks,
                   IF fut.length.some THEN fut.length.n ELSE fut.limit,
                   fut.encoding, <<>>, <<>>)

UrlEncoded_poll(fut) ==
    IF fut.kind = "Error"
    THEN [out |-> Err(fut.e), polled |-> <<>>]
    ELSE poll_body(fut.stream.chunks, fut.limit, fut.encoding, <<>>, <<>>)

FormTy == <<"Form">>

Error_from(e) == [t |-> "Error", cause |-> e, by |-> "into"]
err_handler(e, r) == [t |-> "Error", cause |-> e, by |-> "err_handler"]

FormValue(v) == [t |-> "Form", v |-> v]

Form_config_data_first(r) ==
    IF r.app_data.data.set THEN r.app_data.data
    ELSE IF r.app_data.bare.set THEN r.app_data.bare
    ELSE FormConfig(DefaultLimit, FALSE)

\* Form::from_request: the FormConfig stored bare, else the one stored in
\* Data, else the default limit and no error handler
Form_config(r) ==
    IF r.app_data.bare.set THEN r.app_data.bare
    ELSE IF r.app_data.data.set THEN r.app_data.data
    ELSE FormConfig(DefaultLimit, FALSE)

\* FromRequest for Form<T>
Form_from_request(r, pl) ==
    LET cfg == Form_config(r)
        new == UrlEncoded_new(r, pl)
        fut == UrlEncoded_limit(new.fut, cfg.limit)
        res == UrlEncoded_poll(fut)
        out == IF res.out.ok THEN Ok(FormValue(res.out.v))
               ELSE IF cfg.err_handler THEN Err(err_handler(res.out.e, r))
               ELSE Err(Error_from(res.out.e))
    IN  Node(FormTy, pl, out, new.pl, res.polled, <<>>)

----------------------------------------------------------------------------
(* extract.rs and types/either.rs: the combinators *)

UnitTy == <<"Unit">>
BytesTy == <<"Bytes">>
ThingOk == <<"ThingOk">>
ThingErr == <<"ThingErr">>
OptionTy(T) == <<"Option", T>>
ResultTy(T) == <<"Result", T>>
EitherTy(A, B) == <<"Either", A, B>>

UnitValue == [t |-> "Unit"]

\* FromRequest for ()
Unit_from_request(r, pl) == Node(UnitTy, pl, Ok(UnitValue), pl, <<>>, <<>>)

ErrorBadRequest(msg) == [t |-> "Error", cause |-> [t |-> "BadRequest", msg |-> msg], by |-> "into"]

\* The documentation's Thing extractor, with its coin fixed by the type:
\* it never looks at the payload.
Thing_from_request(ty, r, pl) ==
    Node(ty, pl,
         IF ty = ThingOk THEN Ok([t |-> "Thing", v |-> [name |-> "thingy"]])
         ELSE Err(ErrorBadRequest("no luck")),
         pl, <<>>, <<>>)

BytesValue(buf) == [t |-> "Bytes", v |-> [data |-> buf]]

RECURSIVE read_all(_, _, _)
read_all(chunks, buf, polled) ==
    IF chunks = <<>>
    THEN [out |-> Ok(BytesValue(buf)), polled |-> polled]
    ELSE LET chunk == Head(chunks)
             seen == Append(polled, chunk)
         IN  IF chunk.err
             THEN [out |-> Err(Error_from(UrlErr("Payload"))), polled |-> seen]
             ELSE IF Size(buf) + Size(chunk.data) > PayloadLimit
             THEN [out |-> Err(Error_from(Overflow(Size(buf) + Size(chunk.data), PayloadLimit))),
                   polled |-> seen]
             ELSE read_all(Tail(chunks), buf \o chunk.data, seen)

\* FromRequest for Bytes: buffers the whole body, bounded by the payload limit.
Bytes_from_request(r, pl) ==
    LET res == read_all(take(pl).stream.chunks, <<>>, <<>>)
    IN  Node(BytesTy, pl, res.out, take(pl).pl, res.polled, <<>>)

payload_from_bytes_unfilled(bytes) == PayloadStream(<<>>)

\* payload_from_bytes: a fresh stream holding the bytes, already at eof.
payload_from_bytes(bytes) == PayloadStream(<<DataChunk(bytes)>>)

EitherBytes(err) == [t |-> "Bytes", err |-> err]
EitherExtract(a_err, b_err) == [t |-> "Extract", a |-> a_err, b |-> b_err]

Into_Error_fallback(e) ==
    CASE e.t = "Error" -> e
      [] e.t = "Bytes" -> e.err
      [] e.t = "Extract" -> IF e.b.t = "Error" THEN e.b ELSE Error_from(e.b)
      [] OTHER -> Error_from(e)

\* Into<Error> for the extractors' error types
RECURSIVE Into_Error(_)
Into_Error(e) ==
    CASE e.t = "Error" -> e
      [] e.t = "Bytes" -> e.err
      [] e.t = "Extract" -> Into_Error(e.a)
      [] OTHER -> Error_from(e)

SomeValue(v) == [t |-> "Some", v |-> v]
NoneValue == [t |-> "None"]
OkValue(v) == [t |-> "Ok", v |-> v]
ErrValue(e) == [t |-> "Err", e |-> e]
EitherA(v) == [t |-> "A", v |-> v]
EitherB(v) == [t |-> "B", v |-> v]

Option_match_propagate(res) == IF res.ok THEN Ok(SomeValue(res.v)) ELSE Err(res.e)

\* The match of Option<T>::from_request on T's outcome
Option_match(res) == IF res.ok THEN Ok(SomeValue(res.v)) ELSE Ok(NoneValue)

Result_wrap_flatten(res) == IF res.ok THEN Ok(OkValue(res.v)) ELSE Err(res.e)

\* Result<T, T::Error>::from_request wraps T's outcome
Result_wrap(res) == Ok(IF res.ok THEN OkValue(res.v) ELSE ErrValue(res.e))

Either_tries_B_always(a_res) == TRUE

\* The match of bytes_to_a_or_b on A's outcome: is B to be tried
Either_tries_B(a_res) == ~a_res.ok

\* The outcome of bytes_to_a_or_b from A's outcome and, when tried, B's
Either_outcome(a_res, b_res) ==
    IF a_res.ok THEN Ok(EitherA(a_res.v))
    ELSE IF b_res.ok THEN Ok(EitherB(b_res.v))
    ELSE Err(EitherExtract(a_res.e, b_res.e))

RECURSIVE from_request(_, _, _)
RECURSIVE bytes_to_a_or_b(_, _, _)
RECURSIVE Either_from_request(_, _, _)
RECURSIVE Option_from_request(_, _, _)
RECURSIVE Result_from_request(_, _, _)

Option_from_request(ty, r, pl) ==
    LET t == from_request(ty[2], r, pl)
    IN  Node(ty, pl, Option_match(t.out), t.pl, <<>>, <<t>>)

Result_from_request(ty, r, pl) ==
    LET t == from_request(ty[2], r, pl)
    IN  Node(ty, pl, Result_wrap(t.out), t.pl, <<>>, <<t>>)

\* bytes_to_a_or_b: the outcome and the extractions it ran, in order
bytes_to_a_or_b(ty, r, bytes) ==
    LET fallback == bytes
        a == from_request(ty[2], r, payload_from_bytes(bytes))
        b == from_request(ty[3], r, payload_from_bytes(fallback))
    IN  IF Either_tries_B(a.out)
        THEN [out |-> Either_outcome(a.out, b.out), kids |-> <<a, b>>]
        ELSE [out |-> Either_outcome(a.out, a.out), kids |-> <<a>>]

Either_from_request_ignores_buffering(ty, r, pl) ==
    LET bytes == Bytes_from_request(r, pl)
        ab == bytes_to_a_or_b(ty, r, IF bytes.out.ok THEN bytes.out.v.v.data ELSE <<>>)
    IN  Node(ty, pl, ab.out, bytes.pl, <<>>, <<bytes>> \o ab.kids)

Either_from_request(ty, r, pl) ==
    LET bytes == Bytes_from_request(r, pl)
        ab == bytes_to_a_or_b(ty, r, bytes.out.v.v.data)
    IN  IF ~bytes.out.ok
        THEN Node(ty, pl, Err(EitherBytes(bytes.out.e)), bytes.pl, <<>>, <<bytes>>)
        ELSE Node(ty, pl, ab.out, bytes.pl, <<>>, <<bytes>> \o ab.kids)

\* T::from_request for an extractable type T
from_request(ty, r, pl) ==
    CASE ty[1] = "Unit" -> Unit_from_request(r, pl)
      [] ty[1] = "ThingOk" -> Thing_from_request(ty, r, pl)
      [] ty[1] = "ThingErr" -> Thing_from_request(ty, r, pl)
      [] ty[1] = "Form" -> Form_from_request(r, pl)
      [] ty[1] = "Bytes" -> Bytes_from_request(r, pl)
      [] ty[1] = "Option" -> Option_from_request(ty, r, pl)
      [] ty[1] = "Result" -> Result_from_request(ty, r, pl)
      [] ty[1] = "Either" -> Either_from_request(ty, r, pl)

----------------------------------------------------------------------------
(* responder.rs: what the application functions return *)

Response(status, body) == [from_error |-> FALSE, status |-> status, body |-> body]

\* Response::from(Error): the error rendered as a response
Response_from_error(e) == [from_error |-> TRUE, error |-> e]

AppError == [t |-> "Error", cause |-> [t |-> "App", msg |-> "rejected"], by |-> "into"]

\* Responder for String
String_respond_to(text) == Ok(Response(200, text))

\* Responder for Result<T, E>
Result_respond_to(val) ==
    IF val.t = "Ok" THEN String_respond_to(val.v) ELSE Err(Into_Error(val.e))

----------------------------------------------------------------------------
(* handler.rs: Factory and Handler *)

Rejected(item) ==
    \/ item.t \in {"None", "Err", "B"}
    \/ item.t = "Form" /\ item.v.hello = <<>>

\* Factory::call: the application function applied to the extracted tuple.
\* greet answers every request; validate returns Err for an empty or
\* missing hello.
Factory_call(hnd, item) ==
    IF hnd = "validate" /\ \E i \in 1..Len(item) : Rejected(item[i])
    THEN ErrValue(AppError)
    ELSE OkValue([greeting |-> item])

Handler_new(hnd, T) == [hnd |-> hnd, T |-> T]

\* ServiceFactory::new_service: ready(Ok(self.clone()))
new_service(self) == Handler_new(self.hnd, self.T)

\* Service::poll_ready
poll_ready(self) == "Ready(Ok)"

Handler_after_call_sticky(self, res) ==
    IF res.ok /\ res.v.response.from_error THEN Handler_new("validate", <<ThingErr>>) ELSE self

\* call takes &self: the Handler after a call whose future resolved to res
Handler_after_call(self, res) == self

ServiceResponse(r, res) == [request |-> r, response |-> res]

\* ServiceRequest::error_response
error_response(r, e) == ServiceResponse(r, Response_from_error(Into_Error(e)))

Unset == [unset |-> TRUE]
Ready(res) == [unset |-> FALSE, res |-> res]

tuple_step_first_only(T, kk, its, node) ==
    IF ~node.out.ok
    THEN [k |-> kk, items |-> its, exres |-> Ready(Err(Into_Error(node.out.e)))]
    ELSE [k |-> kk + 1, items |-> Append(its, node.out.v),
          exres |-> Ready(Ok(Append(its, node.out.v)))]

tuple_step_no_short_circuit(T, kk, its, node) ==
    LET v == IF node.out.ok THEN node.out.v ELSE UnitValue IN
    IF kk = Len(T)
    THEN [k |-> kk + 1, items |-> Append(its, v),
          exres |-> IF node.out.ok THEN Ready(Ok(Append(its, v)))
                    ELSE Ready(Err(Into_Error(node.out.e)))]
    ELSE [k |-> kk + 1, items |-> Append(its, v), exres |-> Unset]

\* tuple_from_req, after member k's extraction finished as node: the next
\* member to run, the items so far, and the tuple's outcome once decided.
tuple_step(T, kk, its, node) ==
    IF ~node.out.ok
    THEN [k |-> kk, items |-> its, exres |-> Ready(Err(Into_Error(node.out.e)))]
    ELSE IF kk = Len(T)
    THEN [k |-> kk + 1, items |-> Append(its, node.out.v),
          exres |-> Ready(Ok(Append(its, node.out.v)))]
    ELSE [k |-> kk + 1, items |-> Append(its, node.out.v), exres |-> Unset]

Handler_extracted_propagate(r, res) ==
    IF res.ok
    THEN [pc |-> "invoke", result |-> Unset]
    ELSE [pc |-> "done", result |-> Ready(Err(res.e))]

Handler_extracted_invoke(r, res) == [pc |-> "invoke", result |-> Unset]

\* Handler::call, the match on the extraction result
Handler_extracted(r, res) ==
    IF res.ok
    THEN [pc |-> "invoke", result |-> Unset]
    ELSE [pc |-> "done", result |-> Ready(Ok(error_response(r, res.e)))]

\* Handler::call, Ok arm after the function's future completed
Handler_respond(r, resp) ==
    LET res == Result_respond_to(resp)
    IN  Ok(ServiceResponse(r, IF res.ok THEN res.v ELSE Response_from_error(res.e)))

Outcome(res, ex) ==
    IF ~res.ok THEN "service_err"
    ELSE IF ~ex.ok THEN "extract_err"
    ELSE IF res.v.response.from_error THEN "respond_err"
    ELSE "ok"

Handlers ==
    { Handler_new("greet", <<>>),
      Handler_new("validate", <<FormTy>>),
      Handler_new("validate", <<OptionTy(FormTy)>>),
      Handler_new("validate", <<ResultTy(FormTy)>>),
      Handler_new("greet", <<EitherTy(FormTy, BytesTy)>>),
      Handler_new("greet", <<EitherTy(EitherTy(FormTy, ThingErr), BytesTy)>>),
      Handler_new("validate", <<EitherTy(FormTy, ThingErr)>>),
      Handler_new("greet", <<EitherTy(ThingOk, FormTy)>>),
      Handler_new("greet", <<ThingOk, ThingErr, FormTy>>),
      Handler_new("validate", <<ThingOk, FormTy, BytesTy>>) }

----------------------------------------------------------------------------
(* The serving loop around one Handler service *)

\* The middlewares are not part of the pipeline.
CompressOff ==
    /\ compress = Unset
    /\ cmw = Unset
    /\ cpc = "off"
    /\ cpoll = "None"
    /\ creq = Unset
    /\ cneg = Unset
    /\ cinner = Unset
    /\ cout = Unset

NotPolled == [inner |-> "None", out |-> "None"]

ConditionOff ==
    /\ condition = Unset
    /\ dsvc = Unset
    /\ dmw = Unset
    /\ dpc = "off"
    /\ dpoll = NotPolled
    /\ dreq = Unset
    /\ dout = Unset
    /\ dfailed = FALSE
    /\ dran = 0

ResponderOff ==
    /\ custom = Unset
    /\ rpc = "off"
    /\ rcalls = <<>>
    /\ rout = Unset

RoundTripOff ==
    /\ form = Unset
    /\ tpc = "off"
    /\ tresp = Unset
    /\ tback = Unset

SharedOff ==
    /\ heap = <<>>
    /\ handles = <<>>
    /\ polls = <<>>
    /\ futs = <<>>

PipelineOff ==
    /\ pipe = Unset
    /\ ppc = "off"
    /\ ppoll = Unset
    /\ preq = Unset
    /\ plog = <<>>
    /\ pout = Unset

Init ==
    /\ factory \in Handlers
    /\ service = new_service(factory)
    /\ pc = "idle"
    /\ lastPoll = "None"
    /\ req = Unset
    /\ payload = PayloadNone
    /\ k = 0
    /\ items = <<>>
    /\ nodes = <<>>
    /\ exres = Unset
    /\ responder = Unset
    /\ invoked = 0
    /\ result = Unset
    /\ failed = FALSE
    /\ CompressOff
    /\ ConditionOff
    /\ ResponderOff
    /\ PipelineOff
    /\ RoundTripOff
    /\ SharedOff

PollReady ==
    /\ pc = "idle"
    /\ lastPoll' = poll_ready(service)
    /\ pc' = "polled"
    /\ UNCHANGED <<factory, service, req, payload, k, items, nodes, exres,
                   responder, invoked, result, failed>>
    /\ UNCHANGED <<cvars, dvars, rvars, pvars, tvars, xvars>>

\* Handler::call up to the first await: into_parts and the handler clone
Call(r) ==
    /\ pc = "polled"
    /\ lastPoll = "Ready(Ok)"
    /\ req' = [content_type |-> r.content_type, content_length |-> r.content_length,
               app_data |-> r.app_data]
    /\ payload' = PayloadStream(r.body)
    /\ k' = 1
    /\ pc' = "extract"
    /\ UNCHANGED <<factory, service, lastPoll, items, nodes, exres, responder,
                   invoked, result, failed>>
    /\ UNCHANGED <<cvars, dvars, rvars, pvars, tvars, xvars>>

HttpRequest_borrowed_consumed(r, user) ==
    [r EXCEPT !.app_data = [bare |-> NoConfig, data |-> NoConfig]]

\* from_request and respond_to take &HttpRequest: the request, its app data
\* included, after user has worked with it
HttpRequest_borrowed(r, user) == r

\* T = (): the unit extractor is ready at once
ExtractUnit ==
    /\ pc = "extract"
    /\ Len(service.T) = 0
    /\ LET node == Unit_from_request(req, payload)
           next == Handler_extracted(req, Ok(<<>>))
       IN  /\ nodes' = <<node>>
           /\ exres' = Ready(Ok(<<>>))
           /\ pc' = next.pc
           /\ result' = next.result
           /\ req' = HttpRequest_borrowed(req, node)
    /\ UNCHANGED <<factory, service, lastPoll, payload, k, items, responder,
                   invoked, failed>>
    /\ UNCHANGED <<cvars, dvars, rvars, pvars, tvars, xvars>>

\* One member of the tuple: its from_request awaited to completion
ExtractMember ==
    /\ pc = "extract"
    /\ Len(service.T) > 0
    /\ LET node == from_request(service.T[k], req, payload)
           step == tuple_step(service.T, k, items, node)
       IN  /\ nodes' = Append(nodes, node)
           /\ req' = HttpRequest_borrowed(req, node)
           /\ payload' = node.pl
           /\ k' = step.k
           /\ items' = step.items
           /\ exres' = step.exres
           /\ IF step.exres = Unset
              THEN UNCHANGED <<pc, result>>
              ELSE /\ pc' = Handler_extracted(req, step.exres.res).pc
                   /\ result' = Handler_extracted(req, step.exres.res).result
    /\ UNCHANGED <<factory, service, lastPoll, responder, invoked, failed>>
    /\ UNCHANGED <<cvars, dvars, rvars, pvars, tvars, xvars>>

\* handle.call(item).await
Invoke ==
    /\ pc = "invoke"
    /\ responder' = Factory_call(service.hnd, exres.res.v)
    /\ invoked' = invoked + 1
    /\ pc' = "respond"
    /\ UNCHANGED <<factory, service, lastPoll, req, payload, k, items, nodes,
                   exres, result, failed>>
    /\ UNCHANGED <<cvars, dvars, rvars, pvars, tvars, xvars>>

\* .respond_to(&req).await.unwrap_or_else(..), then Ok(ServiceResponse)
Respond ==
    /\ pc = "respond"
    /\ result' = Ready(Handler_respond(req, responder))
    /\ req' = HttpRequest_borrowed(req, responder)
    /\ pc' = "done"
    /\ UNCHANGED <<factory, service, lastPoll, payload, k, items, nodes,
                   exres, responder, invoked, failed>>
    /\ UNCHANGED <<cvars, dvars, rvars, pvars, tvars, xvars>>

\* The caller takes the output; the request's state is dropped
Finish ==
    /\ pc = "done"
    /\ failed' = (failed \/ Outcome(result.res, exres.res) # "ok")
    /\ service' = Handler_after_call(service, result.res)
    /\ pc' = "idle"
    /\ req' = Unset
    /\ payload' = PayloadNone
    /\ k' = 0
    /\ items' = <<>>
    /\ nodes' = <<>>
    /\ exres' = Unset
    /\ responder' = Unset
    /\ invoked' = 0
    /\ result' = Unset
    /\ UNCHANGED <<factory, lastPoll>>
    /\ UNCHANGED <<cvars, dvars, rvars, pvars, tvars, xvars>>

\* The future of call is dropped at one of its awaits: what it owns is
\* released, the request's app data stays where the application keeps it
Drop ==
    /\ pc \in {"extract", "invoke", "respond"}
    /\ pc' = "dropped"
    /\ payload' = PayloadNone
    /\ k' = 0
    /\ items' = <<>>
    /\ nodes' = <<>>
    /\ exres' = Unset
    /\ responder' = Unset
    /\ invoked' = 0
    /\ result' = Unset
    /\ UNCHANGED <<factory, service, lastPoll, req, failed>>
    /\ UNCHANGED <<cvars, dvars, rvars, pvars, tvars, xvars>>

\* The serving loop goes on after a dropped call
Resume ==
    /\ pc = "dropped"
    /\ pc' = "idle"
    /\ req' = Unset
    /\ UNCHANGED <<factory, service, lastPoll, payload, k, items, nodes, exres,
                   responder, invoked, result, failed>>
    /\ UNCHANGED <<cvars, dvars, rvars, pvars, tvars, xvars>>

Next ==
    \/ PollReady
    \/ Drop
    \/ Resume
    \/ \E r \in Requests : Call(r)
    \/ ExtractUnit
    \/ ExtractMember
    \/ Invoke
    \/ Respond
    \/ Finish

Spec == Init /\ [][Next]_vars

----------------------------------------------------------------------------
(* Properties *)

\* The call trees of the current request, every nested extraction included,
\* in the order the extractions started.
RECURSIVE Flatten(_)
Flatten(ns) ==
    IF ns = <<>> THEN <<>>
    ELSE <<Head(ns)>> \o Flatten(Head(ns).kids) \o Flatten(Tail(ns))

AllNodes == Flatten(nodes)

NodesOf(tag) == {i \in 1..Len(AllNodes) : AllNodes[i].ty[1] = tag}

Extracted == exres # Unset
ExtractFailed == Extracted /\ ~exres.res.ok

\* C1: the future of Handler::call always resolves to Ok(ServiceResponse);
\* a failed extraction and a failed responder conversion both end as the
\* response rendered from the error, never as Err of the service.
C1_CallResolvesOk ==
    pc = "done" =>
        /\ result.res.ok
        /\ result.res.v.request = req
        /\ ~exres.res.ok =>
              result.res.v.response = Response_from_error(exres.res.e)
        /\ (exres.res.ok /\ responder.t = "Err") =>
              result.res.v.response = Response_from_error(responder.e)
        /\ (exres.res.ok /\ responder.t = "Ok") =>
              ~result.res.v.response.from_error

C1_Witness ==
    /\ pc = "done"
    /\ exres.res.ok
    /\ responder.t = "Err"
    /\ result.res.ok
    /\ result.res.v.response.from_error

\* C2: once the extraction of the argument tuple has failed, the application
\* function is not invoked for that request and the call is over, its
\* response being the one rendered from the failing member's error.
C2_NoInvokeOnExtractError ==
    ExtractFailed =>
        /\ invoked = 0
        /\ responder = Unset
        /\ pc = "done"
        /\ result.res.ok
        /\ result.res.v.response =
              Response_from_error(Into_Error(nodes[Len(nodes)].out.e))

C2_Witness ==
    /\ ExtractFailed
    /\ pc = "done"
    /\ invoked = 0
    /\ result.res.v.response.from_error

\* What a freshly built Handler answers to a request, computed in one go.
RECURSIVE tuple_run(_, _, _, _, _)
tuple_run(T, r, pl, kk, its) ==
    LET node == from_request(T[kk], r, pl)
        step == tuple_step(T, kk, its, node)
    IN  IF step.exres # Unset THEN step.exres.res
        ELSE tuple_run(T, r, node.pl, step.k, step.items)

Serve(h, r, pl) ==
    LET ex == IF Len(h.T) = 0 THEN Ok(<<>>) ELSE tuple_run(h.T, r, pl, 1, <<>>)
    IN  IF ex.ok THEN Handler_respond(r, Factory_call(h.hnd, ex.v))
        ELSE Handler_extracted(r, ex).result.res

\* C3: whatever calls came before, failed ones included, the Handler is the
\* one new_service built, poll_ready reports Ready(Ok), and the output of a
\* call is what a fresh Handler gives for the same request.
C3_NoStateLeftBehind ==
    /\ service = new_service(factory)
    /\ lastPoll \in {"None", "Ready(Ok)"}
    /\ pc # "idle" => lastPoll = "Ready(Ok)"
    /\ pc = "done" => result.res = Serve(factory, req, nodes[1].in)

C3_Witness ==
    /\ failed
    /\ pc = "done"
    /\ lastPoll = "Ready(Ok)"
    /\ Outcome(result.res, exres.res) = "ok"

\* C4: the members of the tuple are extracted left to right, each from the
\* payload the one before left, a member starting only after every earlier
\* one succeeded; the first failure ends the tuple with that member's error
\* converted to Error, and no later member is started.
C4_TupleLeftToRight ==
    (Len(service.T) > 0 /\ pc \notin {"idle", "polled", "dropped"}) =>
        /\ Len(nodes) <= Len(service.T)
        /\ \A i \in 1..Len(nodes) : nodes[i].ty = service.T[i]
        /\ \A i \in 1..(Len(nodes) - 1) :
              nodes[i].out.ok /\ nodes[i + 1].in = nodes[i].pl
        /\ k = Len(nodes) + (IF ExtractFailed THEN 0 ELSE 1)
        /\ (Len(nodes) > 0 /\ ~nodes[Len(nodes)].out.ok) =>
              /\ pc = "done"
              /\ exres = Ready(Err(Into_Error(nodes[Len(nodes)].out.e)))
        /\ (Extracted /\ exres.res.ok) =>
              /\ Len(nodes) = Len(service.T)
              /\ exres.res.v = [i \in 1..Len(nodes) |-> nodes[i].out.v]
        /\ pc = "extract" => ~Extracted

C4_Witness ==
    /\ Len(service.T) = 3
    /\ Len(nodes) = 2
    /\ nodes[1].out.ok
    /\ ~nodes[2].out.ok
    /\ pc = "done"
    /\ payload = nodes[2].pl

\* C5: an Option<T> extraction runs T's extraction once and never fails:
\* Ok(None) when T failed, Ok(Some(t)) when T gave t.
C5_OptionNeverFails ==
    \A i \in NodesOf("Option") :
        LET n == AllNodes[i]
            t == n.kids[1]
        IN  /\ Len(n.kids) = 1
            /\ t.ty = n.ty[2]
            /\ t.in = n.in
            /\ n.out.ok
            /\ n.out.v = IF t.out.ok THEN SomeValue(t.out.v) ELSE NoneValue

C5_Witness ==
    /\ pc = "done"
    /\ \E i \in NodesOf("Option") :
          /\ ~AllNodes[i].kids[1].out.ok
          /\ AllNodes[i].out = Ok(NoneValue)
          /\ exres.res = Ok(<<NoneValue>>)

\* C6: a Result<T, T::Error> extraction runs T's extraction once and always
\* succeeds with exactly T's outcome inside: Ok(Ok(t)) or Ok(Err(e)).
C6_ResultWrapsOutcome ==
    \A i \in NodesOf("Result") :
        LET n == AllNodes[i]
            t == n.kids[1]
        IN  /\ Len(n.kids) = 1
            /\ t.ty = n.ty[2]
            /\ t.in = n.in
            /\ n.out.ok
            /\ n.out.v = IF t.out.ok THEN OkValue(t.out.v) ELSE ErrValue(t.out.e)

C6_Witness ==
    /\ pc = "done"
    /\ invoked = 1
    /\ \E i \in NodesOf("Result") :
          /\ ~AllNodes[i].kids[1].out.ok
          /\ AllNodes[i].out = Ok(ErrValue(AllNodes[i].kids[1].out.e))

\* An Either extraction whose buffering succeeded: kids[1] is the buffering,
\* kids[2] the extraction of A, kids[3] that of B when it ran.
Buffered(n) == n.kids[1].out.ok

\* C7: once the body is buffered, Either<A, B> extracts A first; if A
\* succeeds the result is the A branch and B is not attempted; otherwise B
\* is extracted next and the result is the B branch if it succeeds, else
\* the composite error holding A's and B's errors.
C7_EitherBranches ==
    \A i \in NodesOf("Either") :
        LET n == AllNodes[i]
            a == n.kids[2]
            b == n.kids[3]
        IN  Buffered(n) =>
              /\ Len(n.kids) >= 2
              /\ a.ty = n.ty[2]
              /\ IF a.out.ok
                 THEN /\ Len(n.kids) = 2
                      /\ n.out = Ok(EitherA(a.out.v))
                 ELSE /\ Len(n.kids) = 3
                      /\ b.ty = n.ty[3]
                      /\ n.out = IF b.out.ok THEN Ok(EitherB(b.out.v))
                                 ELSE Err(EitherExtract(a.out.e, b.out.e))

C7_Witness ==
    /\ pc = "done"
    /\ \E i \in NodesOf("Either") :
          LET n == AllNodes[i] IN
          /\ Buffered(n)
          /\ Len(n.kids) = 3
          /\ ~n.out.ok
          /\ n.out.e.t = "Extract"
          /\ n.out.e.a = n.kids[2].out.e
          /\ n.out.e.b = n.kids[3].out.e
          /\ n.out.e.a # n.out.e.b

\* The bytes of a stream, its chunks joined in order.
RECURSIVE Concat(_)
Concat(cs) == IF cs = <<>> THEN <<>> ELSE Head(cs).data \o Concat(Tail(cs))

\* C8: in an Either extraction A and B each start from a stream of their
\* own that holds the whole buffered body and then ends, whatever A took
\* from its stream; a raw-bytes B returns that body unchanged.
C8_EitherFreshStreams ==
    \A i \in NodesOf("Either") :
        LET n == AllNodes[i]
            bytes == n.kids[1].out.v.v.data
            fresh == PayloadStream(<<DataChunk(bytes)>>)
        IN  Buffered(n) =>
              /\ bytes = Concat(n.in.chunks)
              /\ \A j \in 2..Len(n.kids) :
                    /\ n.kids[j].in = fresh
                    /\ Concat(n.kids[j].in.chunks) = Concat(n.in.chunks)
                    /\ n.kids[j].ty = BytesTy =>
                          n.kids[j].out = Ok(BytesValue(Concat(n.in.chunks)))

C8_Witness ==
    /\ pc = "done"
    /\ \E i \in NodesOf("Either") :
          LET n == AllNodes[i] IN
          /\ Buffered(n)
          /\ Len(n.kids) = 3
          /\ n.ty[2] = FormTy
          /\ n.kids[2].polled # <<>>
          /\ n.kids[2].pl = PayloadNone
          /\ Size(Concat(n.in.chunks)) > 1
          /\ n.kids[3].ty = BytesTy
          /\ n.out = Ok(EitherB(BytesValue(Concat(n.in.chunks))))

\* The request passes the content-type and text-encoding checks of the
\* form decoder.
FormHeadersOk(r) == to_lowercase(content_type(r)) = FormMime /\ encoding(r).ok

DeclaredLength(r) == r.content_length.present /\ r.content_length.text = "digits"

\* C9: a form body whose declared content-length exceeds the configured
\* limit is rejected before any chunk of the payload is read, with an
\* Overflow error carrying the declared length as size and the configured
\* limit as limit.
C9_DeclaredOverConfiguredLimit ==
    \A i \in NodesOf("Form") :
        LET n == AllNodes[i]
            limit == Form_config(req).limit
        IN  (FormHeadersOk(req) /\ DeclaredLength(req) /\ req.content_length.n > limit) =>
              /\ n.polled = <<>>
              /\ ~n.out.ok
              /\ n.out.e.cause = Overflow(req.content_length.n, limit)

\* Size of the first i chunks of a stream.
RECURSIVE Total(_, _)
Total(cs, i) == IF i = 0 THEN 0 ELSE Total(cs, i - 1) + Size(cs[i].data)

Least(S) == IF S = {} THEN 0 ELSE CHOOSE i \in S : \A j \in S : i <= j

\* Index of the first chunk with which the running total passes the limit,
\* and of the first chunk that is a payload error; 0 when there is none.
FirstOver(cs, limit) == Least({i \in 1..Len(cs) : Total(cs, i) > limit})
FirstErr(cs) == Least({i \in 1..Len(cs) : cs[i].err})

\* C10: with no declared content-length, the form decoder reads the chunks
\* in order and fails with Overflow at the first chunk with which the
\* running total exceeds the limit, carrying that total and the limit, and
\* reads no chunk after it; a body that never exceeds the limit, one of
\* exactly the limit included, is read to its end and parsed whole.
C10_StreamingOverflow ==
    \A i \in NodesOf("Form") :
        LET n == AllNodes[i]
            cs == n.in.chunks
            limit == Form_config(req).limit
            o == FirstOver(cs, limit)
            e == FirstErr(cs)
        IN  (FormHeadersOk(req) /\ ~req.content_length.present /\ (e = 0 \/ (o # 0 /\ o < e))) =>
              IF o # 0
              THEN /\ ~n.out.ok
                   /\ n.out.e.cause = Overflow(Total(cs, o), limit)
                   /\ n.polled = SubSeq(cs, 1, o)
              ELSE /\ n.polled = cs
                   /\ n.out.ok => n.out.v = FormValue([hello |-> Tail(Concat(cs))])
                   /\ ~n.out.ok => n.out.e.cause = UrlErr("Parse")

C10_Witness ==
    /\ pc = "done"
    /\ ~req.content_length.present
    /\ \E i \in NodesOf("Form") :
          LET n == AllNodes[i]
              o == FirstOver(n.in.chunks, Form_config(req).limit)
          IN  /\ FormHeadersOk(req)
              /\ o # 0
              /\ o < Len(n.in.chunks)
              /\ Len(n.polled) = o
              /\ n.out.e.cause.t = "Overflow"

Min(a, b) == IF a < b THEN a ELSE b

\* The body of a Form extraction was accepted: every chunk was read and the
\* accumulated bytes were handed to the parser with success.
FormAccepted(n) == n.out.ok /\ n.polled = n.in.chunks

\* C11: the effective limit of form decoding is the smaller of the
\* configured limit and the 32768-byte ceiling: no body whose accumulated
\* size exceeds min(configured limit, 32768) is accepted, with or without a
\* declared content-length.
C11_EffectiveLimitIsMin ==
    \A i \in NodesOf("Form") :
        LET n == AllNodes[i]
        IN  FormAccepted(n) =>
              Size(Concat(n.in.chunks)) <= Min(Form_config(req).limit, HardLimit)

----------------------------------------------------------------------------
(* types/form.rs: header validation, configuration lookup *)

\* The first header check of the form decoder that the request fails, in
\* the order content type, charset, content-length syntax, declared size.
FirstFailing(r) ==
    IF r.content_type.mime \notin {"application/x-www-form-urlencoded",
                                   "Application/X-WWW-Form-UrlEncoded"}
    THEN "ContentType"
    ELSE IF ~encoding(r).ok THEN "ContentType"
    ELSE IF r.content_length.present /\ r.content_length.text # "digits"
    THEN "UnknownLength"
    ELSE IF r.content_length.present
            /\ r.content_length.n > Min(Form_config(r).limit, HardLimit)
    THEN "Overflow"
    ELSE "None"

\* C28: the form decoder validates the headers before any byte of the body
\* is read, in the order content type (compared without regard to case),
\* charset, content-length syntax, declared size; the first check that
\* fails alone decides the error: ContentType, ContentType, UnknownLength,
\* Overflow.
C28_HeaderValidationOrder ==
    \A i \in NodesOf("Form") :
        LET n == AllNodes[i]
        IN  FirstFailing(req) # "None" =>
              /\ ~n.out.ok
              /\ n.polled = <<>>
              /\ n.out.e.cause.t = FirstFailing(req)

C28_Witness ==
    /\ pc = "done"
    /\ req.content_type.charset = "bogus"
    /\ req.content_length = BadLen
    /\ \E i \in NodesOf("Form") :
          /\ AllNodes[i].in.chunks # <<>>
          /\ AllNodes[i].out.e.cause = UrlErr("ContentType")
          /\ AllNodes[i].polled = <<>>

\* The limit and the error mapper a request's app data gives the Form
\* extractor: the FormConfig stored as such, else the one wrapped in Data,
\* else 16384 and no mapper.
ConfiguredLimit(r) ==
    IF r.app_data.bare.set THEN r.app_data.bare.limit
    ELSE IF r.app_data.data.set THEN r.app_data.data.limit
    ELSE 16384

ConfiguredMapper(r) ==
    IF r.app_data.bare.set THEN r.app_data.bare.err_handler
    ELSE IF r.app_data.data.set THEN r.app_data.data.err_handler
    ELSE FALSE

\* C29: Form takes its limit and its error mapper from the FormConfig in the
\* app data, the bare one first, else the Data-wrapped one, else 16384 and
\* no mapper; with a mapper every failure of the extraction is the mapper's
\* result for the error and the request, without one it is the error's
\* default conversion.
C29_ConfigLookup ==
    \A i \in NodesOf("Form") :
        LET n == AllNodes[i]
        IN  /\ ~n.out.ok =>
                  n.out.e = IF ConfiguredMapper(req)
                            THEN err_handler(n.out.e.cause, req)
                            ELSE Error_from(n.out.e.cause)
            /\ (~n.out.ok /\ n.out.e.cause.t = "Overflow"
                  /\ n.out.e.cause.size <= HardLimit) =>
                  n.out.e.cause.limit = ConfiguredLimit(req)
            /\ (FormAccepted(n) /\ ConfiguredLimit(req) <= HardLimit) =>
                  Size(Concat(n.in.chunks)) <= ConfiguredLimit(req)

C29_Witness ==
    /\ pc = "done"
    /\ req.app_data.bare.set
    /\ req.app_data.data.set
    /\ \E i \in NodesOf("Form") :
          /\ AllNodes[i].out = Err(Error_from(Overflow(3, 1)))
          /\ AllNodes[i].polled = <<>>

----------------------------------------------------------------------------
(* types/either.rs: conversion of the Either extraction error *)

\* The member extraction that failed the current call.
FailedMember == nodes[Len(nodes)]

LeafError(e) == IF e.t = "Error" THEN e ELSE Error_from(e)

\* The error of the primary extractor of an Either extraction whose
\* buffering succeeded, the primary being possibly an Either itself.
RECURSIVE PrimaryError(_)
PrimaryError(n) ==
    IF n.ty[1] = "Either"
    THEN IF ~n.kids[1].out.ok THEN n.kids[1].out.e ELSE PrimaryError(n.kids[2])
    ELSE LeafError(n.out.e)

EitherFailed ==
    /\ ExtractFailed
    /\ nodes # <<>>
    /\ FailedMember.ty[1] = "Either"
    /\ ~FailedMember.out.ok

\* C30: the error of a failed Either extraction converts to the buffering
\* error when the buffering failed and to the primary extractor's error
\* otherwise; the fallback extractor's error is never the result.
C30_EitherErrorConversion ==
    EitherFailed =>
        IF ~FailedMember.kids[1].out.ok
        THEN exres.res.e = FailedMember.kids[1].out.e
        ELSE /\ exres.res.e = PrimaryError(FailedMember.kids[2])
             /\ exres.res.e # LeafError(FailedMember.kids[3].out.e)

C30_Witness ==
    /\ EitherFailed
    /\ FailedMember.out.e.t = "Extract"
    /\ Len(FailedMember.kids) = 3
    /\ exres.res.e = FailedMember.kids[2].out.e
    /\ exres.res.e.cause.t = "Parse"

----------------------------------------------------------------------------
(* types/form.rs: what a Form extraction leaves of the payload *)

\* The request fails one of the checks UrlEncoded::new makes itself.
NewRejects(r) ==
    \/ r.content_type.mime \notin {"application/x-www-form-urlencoded",
                                   "Application/X-WWW-Form-UrlEncoded"}
    \/ ~encoding(r).ok
    \/ r.content_length.present /\ r.content_length.text # "digits"
    \/ r.content_length.present /\ r.content_length.n > 32768

\* C38: a Form extraction leaves the caller's payload handle as it found it
\* exactly when the request failed header validation inside
\* UrlEncoded::new; in every other case, a declared length between the
\* configured limit and 32768 included, the payload was taken and the
\* handle is empty.
C38_PayloadTakenUnlessNewRejects ==
    \A i \in NodesOf("Form") :
        LET n == AllNodes[i]
        IN  IF NewRejects(req) THEN n.pl = n.in /\ ~n.out.ok
            ELSE n.pl = PayloadNone

C38_Witness ==
    /\ pc = "done"
    /\ ~NewRejects(req)
    /\ \E i \in NodesOf("Form") :
          /\ AllNodes[i].in.chunks # <<>>
          /\ AllNodes[i].pl = PayloadNone
          /\ AllNodes[i].polled = <<>>
          /\ AllNodes[i].out.e.cause = Overflow(3, 1)

\* C36: a declared content-length within the limit plays no part once the
\* eager check has passed: the body, longer or shorter than declared, is
\* read and parsed in full, subject only to the running total against the
\* limit.
C36_DeclaredLengthNotEnforced ==
    \A i \in NodesOf("Form") :
        LET n == AllNodes[i]
            cs == n.in.chunks
            limit == Form_config(req).limit
            o == FirstOver(cs, limit)
        IN  (FormHeadersOk(req) /\ DeclaredLength(req)
               /\ req.content_length.n <= Min(limit, HardLimit)
               /\ FirstErr(cs) = 0) =>
              IF o # 0
              THEN /\ ~n.out.ok
                   /\ n.out.e.cause = Overflow(Total(cs, o), limit)
                   /\ n.polled = SubSeq(cs, 1, o)
              ELSE /\ n.polled = cs
                   /\ n.out.ok => n.out.v = FormValue([hello |-> Tail(Concat(cs))])
                   /\ ~n.out.ok => n.out.e.cause = UrlErr("Parse")

C36_Witness ==
    /\ pc = "done"
    /\ req.content_length = NumLen(1)
    /\ \E i \in NodesOf("Form") :
          /\ Size(Concat(AllNodes[i].in.chunks)) > 1
          /\ FormAccepted(AllNodes[i])

\* C35: when buffering the body for an Either extraction fails, the
\* extraction fails with the buffering error and neither of the two
\* extractors is run.
C35_BufferingFailureStopsEither ==
    \A i \in NodesOf("Either") :
        LET n == AllNodes[i]
        IN  ~n.kids[1].out.ok =>
              /\ n.kids[1].ty = BytesTy
              /\ n.out = Err(EitherBytes(n.kids[1].out.e))
              /\ Len(n.kids) = 1

C35_Witness ==
    /\ pc = "done"
    /\ \E i \in NodesOf("Either") :
          /\ ~AllNodes[i].kids[1].out.ok
          /\ AllNodes[i].kids[1].polled # <<>>
          /\ AllNodes[i].out.e.t = "Bytes"

----------------------------------------------------------------------------
(* extract.rs, types/either.rs: one reader of the request payload *)

\* The extractions of a tuple member that are handed the request's own
\* payload handle: the member itself, the extraction an Option or Result
\* wraps, the buffering of an Either (its two extractors read the buffer).
RECURSIVE Readers(_)
Readers(n) ==
    IF n.ty[1] \in {"Option", "Result"} THEN Readers(n.kids[1])
    ELSE IF n.ty[1] = "Either" THEN <<n.kids[1]>>
    ELSE <<n>>

RECURSIVE ReadersOf(_)
ReadersOf(ns) == IF ns = <<>> THEN <<>> ELSE Readers(Head(ns)) \o ReadersOf(Tail(ns))

\* C34: within one request each chunk of the payload goes to at most one
\* extractor: after an extractor has taken the payload, every later
\* extractor of the tuple is handed an empty handle and reads no chunk.
C34_SingleConsumer ==
    LET R == ReadersOf(nodes)
    IN  \A i, j \in DOMAIN R :
            (i < j /\ (R[i].polled # <<>> \/ R[i].pl # R[i].in)) =>
                /\ R[j].in = PayloadNone
                /\ R[j].polled = <<>>

C34_Witness ==
    /\ pc = "done"
    /\ Len(nodes) = 3
    /\ nodes[2].ty = FormTy
    /\ nodes[2].out.ok
    /\ nodes[2].polled # <<>>
    /\ nodes[3].ty = BytesTy
    /\ nodes[3].in = PayloadNone
    /\ nodes[3].polled = <<>>

----------------------------------------------------------------------------
(* handler.rs: the Ok arm of Handler::call *)

ExtractOk == Extracted /\ exres.res.ok

\* Where the future of Handler::call stands once extraction has succeeded:
\* about to invoke, about to convert, or done.
OkArmInOrder ==
    /\ invoked <= 1
    /\ pc = "invoke" =>
          /\ ExtractOk
          /\ Len(exres.res.v) = Len(service.T)
          /\ Len(nodes) = IF service.T = <<>> THEN 1 ELSE Len(service.T)
          /\ invoked = 0
          /\ responder = Unset
          /\ result = Unset
    /\ pc = "respond" =>
          /\ ExtractOk
          /\ invoked = 1
          /\ responder # Unset
          /\ result = Unset
    /\ (pc = "done" /\ ExtractOk) =>
          /\ invoked = 1
          /\ responder # Unset
          /\ result # Unset
          /\ result.res.ok

\* The function's result and the response are each written once per call.
WrittenOnce ==
    /\ responder' # responder =>
          \/ responder = Unset /\ pc = "invoke" /\ invoked' = 1
          \/ responder' = Unset /\ (pc = "done" \/ pc' = "dropped")
    /\ result' # result =>
          \/ result = Unset /\ pc \in {"extract", "respond"}
          \/ result' = Unset /\ (pc = "done" \/ pc' = "dropped")
    /\ (result' # result /\ pc = "respond") => responder # Unset /\ invoked = 1

\* C37: for a request whose extraction succeeds the application function is
\* invoked exactly once, after every argument has been extracted, and its
\* result is converted to the response exactly once, after the function
\* has returned.
C37_InvokeThenRespondOnce == []OkArmInOrder /\ [][WrittenOnce]_vars

C37_Witness ==
    /\ pc = "done"
    /\ ExtractOk
    /\ Len(service.T) = 3
    /\ Len(nodes) = 3
    /\ invoked = 1
    /\ ~result.res.v.response.from_error

----------------------------------------------------------------------------
(* handler.rs, types/form.rs: the app data is only read *)

\* C33: no step of a request, extraction or response, writes to the app
\* data: it is the same after every step as before it, the step in which a
\* pending future is dropped included.
C33_AppDataReadOnly ==
    [][(req # Unset /\ req' # Unset) => req'.app_data = req.app_data]_vars

C33_Witness ==
    /\ pc = "dropped"
    /\ req.app_data.bare = FormConfig(1, FALSE)
    /\ req.app_data.data = FormConfig(50000, TRUE)

----------------------------------------------------------------------------
(* middleware/compress.rs: content-encoding negotiation *)

MaxTags == 2

\* An Accept-Encoding value with its spaces removed, split at ',' into tags
\* and each tag split at ';' into its parts.
EncodingNames == {"br", "gzip", "deflate", "identity"}
WeightParts == {"q=0.5", "q=0.8", "0.5"}
Tags == {<<n>> : n \in EncodingNames} \cup {<<n, w>> : n \in EncodingNames, w \in WeightParts}

NoHeader == [present |-> FALSE, text |-> FALSE, tags |-> <<>>]
OpaqueHeader == [present |-> TRUE, text |-> FALSE, tags |-> <<>>]
TextHeader(tags) == [present |-> TRUE, text |-> TRUE, tags |-> tags]

AcceptHeaders ==
    {NoHeader, OpaqueHeader} \cup {TextHeader(t) : t \in SeqsUpTo(Tags, MaxTags) \ {<<>>}}

\* ContentEncoding::from(&str)
ContentEncoding_from(name) ==
    CASE name = "br" -> "Br"
      [] name = "gzip" -> "Gzip"
      [] name = "deflate" -> "Deflate"
      [] OTHER -> "Identity"

\* ContentEncoding::quality, in tenths
quality(enc) ==
    CASE enc = "Br" -> 11
      [] enc = "Gzip" -> 10
      [] enc = "Deflate" -> 9
      [] OTHER -> 1

\* f64::from_str, in tenths: a decimal number parses, anything else is Err
f64_from_str(part) ==
    CASE part = "0.5" -> Ok([f |-> 5])
      [] part = "0.8" -> Ok([f |-> 8])
      [] OTHER -> Err([t |-> "ParseFloatError"])

unwrap_or(res, dflt) == IF res.ok THEN res.v.f ELSE dflt

AcceptEncoding(enc, q) == [encoding |-> enc, quality |-> q]

AcceptEncoding_new_zero_default(tag) ==
    AcceptEncoding(ContentEncoding_from(tag[1]),
                   IF Len(tag) = 1 THEN 0 ELSE unwrap_or(f64_from_str(tag[2]), 0))

\* AcceptEncoding::new
AcceptEncoding_new(tag) ==
    LET enc == ContentEncoding_from(tag[1])
    IN  AcceptEncoding(enc,
                       IF Len(tag) = 1 THEN quality(enc)
                       ELSE unwrap_or(f64_from_str(tag[2]), 0))

cmp_ascending(self, other) ==
    IF self.quality > other.quality THEN "Greater"
    ELSE IF self.quality < other.quality THEN "Less"
    ELSE "Equal"

\* Ord for AcceptEncoding
cmp(self, other) ==
    IF self.quality > other.quality THEN "Less"
    ELSE IF self.quality < other.quality THEN "Greater"
    ELSE "Equal"

\* Vec::sort: the stable sort by cmp, as insertion from the left
RECURSIVE insert(_, _)
insert(sorted, x) ==
    IF sorted = <<>> THEN <<x>>
    ELSE LET last == sorted[Len(sorted)]
         IN  IF cmp(x, last) = "Less"
             THEN Append(insert(SubSeq(sorted, 1, Len(sorted) - 1), x), last)
             ELSE Append(sorted, x)

RECURSIVE sort(_)
sort(v) ==
    IF v = <<>> THEN <<>>
    ELSE insert(sort(SubSeq(v, 1, Len(v) - 1)), v[Len(v)])

select_first_only(encodings, forced) ==
    IF encodings = <<>> THEN "Identity"
    ELSE IF forced = "Auto" THEN encodings[1].encoding
    ELSE IF forced = encodings[1].encoding THEN forced
    ELSE "Identity"

\* AcceptEncoding::parse, the loop over the sorted candidates
RECURSIVE select(_, _)
select(encodings, forced) ==
    IF encodings = <<>> THEN "Identity"
    ELSE IF forced = "Auto" THEN Head(encodings).encoding
    ELSE IF forced = Head(encodings).encoding THEN forced
    ELSE select(Tail(encodings), forced)

\* AcceptEncoding::parse: the candidates as collected, as sorted, and the
\* encoding returned
AcceptEncoding_parse(raw, forced) ==
    LET collected == [i \in 1..Len(raw) |-> AcceptEncoding_new(raw[i])]
        encodings == sort(collected)
    IN  [collected |-> collected, sorted |-> encodings,
         encoding |-> select(encodings, forced)]

NotParsed == [collected |-> <<>>, sorted |-> <<>>, encoding |-> "Identity"]

ContentEncodings == {"Auto", "Br", "Gzip", "Deflate", "Identity"}

\* Compress::new
Compress_new(enc) == [encoding |-> enc]

\* Transform::new_transform for Compress
Compress_new_transform(self, svc) == Ok([service |-> svc, encoding |-> self.encoding])

\* CompressMiddleware::poll_ready, given what the inner service answers
CompressMiddleware_poll_ready(self, inner) == inner

negotiate_forced_default(self, header) ==
    IF header.present /\ header.text
    THEN AcceptEncoding_parse(header.tags, self.encoding)
    ELSE [NotParsed EXCEPT
            !.encoding = IF self.encoding = "Auto" THEN "Identity" ELSE self.encoding]

\* CompressMiddleware::call: negotiate content-encoding
negotiate(self, header) ==
    IF header.present
    THEN IF header.text
         THEN AcceptEncoding_parse(header.tags, self.encoding)
         ELSE NotParsed
    ELSE NotParsed

NoEncoding == [some |-> FALSE, enc |-> "Identity"]
SomeEncoding(enc) == [some |-> TRUE, enc |-> enc]

\* A response of the inner service with the override its BodyEncoding holds
InnerResponse(override) == [status |-> 200, encoding |-> override, body |-> "body"]

\* BodyEncoding::get_encoding
get_encoding(res) == res.encoding

resolve_negotiated(res, negotiated) == negotiated

\* CompressMiddleware::call: the encoding the body is wrapped with
resolve(res, negotiated) ==
    IF get_encoding(res).some THEN get_encoding(res).enc ELSE negotiated

\* Encoder::response
Encoder_response(enc, body) == [encoder |-> enc, body |-> body]

\* CompressMiddleware::call, the async block once the inner future gave res
CompressMiddleware_respond(res, negotiated) ==
    IF ~res.ok THEN Err(res.e)
    ELSE Ok([res.v EXCEPT
               !.body = Encoder_response(resolve(res.v, negotiated), res.v.body)])

InnerResults ==
    { Ok(InnerResponse(NoEncoding)), Ok(InnerResponse(SomeEncoding("Gzip"))),
      Ok(InnerResponse(SomeEncoding("Identity"))), Err(AppError) }

Readiness == {"Pending", "Ready(Ok)", "Ready(Err)"}

\* The Handler is not part of the pipeline.
HandlerOff ==
    /\ factory = Unset
    /\ service = Unset
    /\ pc = "off"
    /\ lastPoll = "None"
    /\ req = Unset
    /\ payload = PayloadNone
    /\ k = 0
    /\ items = <<>>
    /\ nodes = <<>>
    /\ exres = Unset
    /\ responder = Unset
    /\ invoked = 0
    /\ result = Unset
    /\ failed = FALSE

----------------------------------------------------------------------------
(* The serving loop around one CompressMiddleware *)

InitCompress ==
    /\ HandlerOff
    /\ ConditionOff
    /\ ResponderOff
    /\ PipelineOff
    /\ RoundTripOff
    /\ SharedOff
    /\ compress \in {Compress_new(e) : e \in ContentEncodings}
    /\ cmw = Unset
    /\ cpc = "new"
    /\ cpoll = "None"
    /\ creq = Unset
    /\ cneg = Unset
    /\ cinner = Unset
    /\ cout = Unset

CompressNewTransform ==
    /\ cpc = "new"
    /\ cmw' = Compress_new_transform(compress, "app").v
    /\ cpc' = "idle"
    /\ UNCHANGED <<compress, cpoll, creq, cneg, cinner, cout>>
    /\ UNCHANGED <<hvars, dvars, rvars, pvars, tvars, xvars>>

CompressPollReady ==
    /\ cpc = "idle"
    /\ \E inner \in Readiness : cpoll' = CompressMiddleware_poll_ready(cmw, inner)
    /\ UNCHANGED <<compress, cmw, cpc, creq, cneg, cinner, cout>>
    /\ UNCHANGED <<hvars, dvars, rvars, pvars, tvars, xvars>>

\* CompressMiddleware::call up to the await: the negotiation, then the
\* inner service is called
CompressCall ==
    /\ cpc = "idle"
    /\ cpoll = "Ready(Ok)"
    /\ \E header \in AcceptHeaders :
          /\ creq' = header
          /\ cneg' = negotiate(cmw, header)
    /\ cpoll' = "None"
    /\ cpc' = "awaiting"
    /\ UNCHANGED <<compress, cmw, cinner, cout>>
    /\ UNCHANGED <<hvars, dvars, rvars, pvars, tvars, xvars>>

\* The inner future resolves and the async block runs to its end
CompressAwait ==
    /\ cpc = "awaiting"
    /\ \E res \in InnerResults :
          /\ cinner' = res
          /\ cout' = CompressMiddleware_respond(res, cneg.encoding)
    /\ cpc' = "done"
    /\ UNCHANGED <<compress, cmw, cpoll, creq, cneg>>
    /\ UNCHANGED <<hvars, dvars, rvars, pvars, tvars, xvars>>

CompressFinish ==
    /\ cpc = "done"
    /\ creq' = Unset
    /\ cneg' = Unset
    /\ cinner' = Unset
    /\ cout' = Unset
    /\ cpc' = "idle"
    /\ UNCHANGED <<compress, cmw, cpoll>>
    /\ UNCHANGED <<hvars, dvars, rvars, pvars, tvars, xvars>>

NextCompress ==
    \/ CompressNewTransform
    \/ CompressPollReady
    \/ CompressCall
    \/ CompressAwait
    \/ CompressFinish

SpecCompress == InitCompress /\ [][NextCompress]_vars

----------------------------------------------------------------------------
(* Properties of the compression middleware *)

\* A call of the CompressMiddleware has negotiated from a header that is text.
Negotiated == cpc \in {"awaiting", "done"}
NegotiatedText == Negotiated /\ creq.present /\ creq.text

Named(tags) == {ContentEncoding_from(tags[i][1]) : i \in 1..Len(tags)}

\* The weight a tag states as q=value, in tenths.
GivenWeight(tag) ==
    CASE tag[2] = "q=0.5" -> 5
      [] tag[2] = "q=0.8" -> 8

WeightGiven(tag) == Len(tag) > 1 /\ tag[2] \in {"q=0.5", "q=0.8"}

\* C12: in auto mode the negotiated encoding is that of a candidate with
\* the highest quality weight given in the header; for the header
\* gzip;q=0.5, br;q=0.8 it is br.
C12_AutoPicksHighestGivenWeight ==
    (NegotiatedText /\ cmw.encoding = "Auto"
        /\ \A i \in 1..Len(creq.tags) : WeightGiven(creq.tags[i])) =>
        \E i \in 1..Len(creq.tags) :
            /\ cneg.encoding = ContentEncoding_from(creq.tags[i][1])
            /\ \A j \in 1..Len(creq.tags) :
                  GivenWeight(creq.tags[j]) <= GivenWeight(creq.tags[i])

\* C13: with a forced encoding E the negotiated encoding is E when some
\* candidate of the header names E, whatever the weights and the order of
\* the candidates, and identity otherwise.
C13_ForcedEncodingIfNamed ==
    (NegotiatedText /\ cmw.encoding # "Auto") =>
        cneg.encoding = IF cmw.encoding \in Named(creq.tags)
                        THEN cmw.encoding ELSE "Identity"

C13_Witness ==
    /\ cpc = "done"
    /\ creq.present /\ creq.text
    /\ cmw.encoding = "Gzip"
    /\ Len(cneg.sorted) = 2
    /\ cneg.sorted[1].encoding = "Br"
    /\ cneg.sorted[2].encoding = "Gzip"
    /\ cneg.sorted[2].quality < cneg.sorted[1].quality
    /\ cneg.encoding = "Gzip"

\* C14: a response of the inner service that declares an encoding override
\* is wrapped with the encoder of that override, whatever was negotiated;
\* the negotiated encoding is used only when there is no override.
C14_OverrideWins ==
    (cpc = "done" /\ cinner.ok) =>
        /\ cout.ok
        /\ cout.v.body.body = cinner.v.body
        /\ cout.v.body.encoder =
              IF cinner.v.encoding.some THEN cinner.v.encoding.enc ELSE cneg.encoding

C14_Witness ==
    /\ cpc = "done"
    /\ cmw.encoding = "Br"
    /\ cneg.encoding = "Br"
    /\ cinner.ok
    /\ cinner.v.encoding = SomeEncoding("Gzip")
    /\ cout.v.body.encoder = "Gzip"

\* C15: a request with no Accept-Encoding header, or with one that is not
\* valid text, negotiates identity in auto and in forced mode.
C15_NoHeaderIsIdentity ==
    (Negotiated /\ (~creq.present \/ ~creq.text)) => cneg.encoding = "Identity"

C15_Witness ==
    /\ cpc = "done"
    /\ creq.present
    /\ ~creq.text
    /\ cmw.encoding = "Gzip"
    /\ cinner = Ok(InnerResponse(NoEncoding))
    /\ cout.v.body.encoder = "Identity"

\* The candidates of a list that have quality q, in the list's order.
RECURSIVE Keep(_, _)
Keep(v, q) ==
    IF v = <<>> THEN <<>>
    ELSE IF Head(v).quality = q THEN <<Head(v)>> \o Keep(Tail(v), q)
    ELSE Keep(Tail(v), q)

C17_IntrinsicWeightOrder ==
    (NegotiatedText /\ cmw.encoding = "Auto"
        /\ \A i \in 1..Len(creq.tags) : Len(creq.tags[i]) = 1) =>
        cneg.encoding =
            CASE "Br" \in Named(creq.tags) -> "Br"
              [] "Gzip" \in Named(creq.tags) -> "Gzip"
              [] "Deflate" \in Named(creq.tags) -> "Deflate"
              [] OTHER -> "Identity"

C17_Witness ==
    /\ cpc = "done"
    /\ cmw.encoding = "Auto"
    /\ creq = TextHeader(<< <<"deflate">>, <<"br">> >>)
    /\ cneg.encoding = "Br"

----------------------------------------------------------------------------
(* middleware/condition.rs: Condition and ConditionMiddleware *)

HttpResponse(status, ct) ==
    [status |-> status, content_type |-> ct, encoding |-> NoEncoding, body |-> "body"]

\* The services a Condition is put around: srv of the tests, which answers
\* 500 to everything, one that answers 200, and one that fails on /bad.
Plain(t) == [t |-> t]
Services == {Plain("srv"), Plain("ok"), Plain("picky")}

Paths == {"/", "/bad"}

\* The Transforms a Condition holds: ErrorHandlers with render_500 as in the
\* tests, one that answers 403 itself and is always ready, and one whose
\* construction fails.
Transforms == {"ErrorHandlers", "Deny", "Broken"}

Wrapped(t, svc) == [t |-> t, service |-> svc]

InitError == [t |-> "InitError"]

\* T::new_transform
Transform_new_transform(trans, svc) ==
    IF trans = "Broken" THEN Err(InitError) ELSE Ok(Wrapped(trans, svc))

\* render_500 of the tests
render_500(res) == [res EXCEPT !.content_type = "0001"]

\* Service::poll_ready of a service, given what the innermost one answers
RECURSIVE Service_poll_ready(_, _)
Service_poll_ready(svc, inner) ==
    CASE svc.t = "ErrorHandlers" -> Service_poll_ready(svc.service, inner)
      [] svc.t = "Deny" -> "Ready(Ok)"
      [] OTHER -> inner

\* Service::call of a service, its future awaited
RECURSIVE Service_call(_, _)
Service_call(svc, r) ==
    CASE svc.t = "ErrorHandlers" ->
             LET res == Service_call(svc.service, r)
             IN  IF res.ok /\ res.v.status = 500 THEN Ok(render_500(res.v)) ELSE res
      [] svc.t = "Deny" -> Ok(HttpResponse(403, "None"))
      [] svc.t = "srv" -> Ok(HttpResponse(500, "None"))
      [] svc.t = "ok" -> Ok(HttpResponse(200, "None"))
      [] svc.t = "picky" ->
             IF r = "/bad" THEN Err(AppError) ELSE Ok(HttpResponse(200, "None"))

\* Condition::new
Condition_new(enable, trans) == [trans |-> trans, enable |-> enable]

Enable(e) == [state |-> "Enable", service |-> e]
Disable(d) == [state |-> "Disable", service |-> d]

Condition_new_transform_always(self, svc) ==
    LET res == Transform_new_transform(self.trans, svc)
    IN  IF res.ok THEN Ok(Enable(res.v)) ELSE Err(res.e)

Condition_new_transform_never(self, svc) == Ok(Disable(svc))

Condition_new_transform_swallow(self, svc) ==
    IF self.enable /\ Transform_new_transform(self.trans, svc).ok
    THEN Ok(Enable(Transform_new_transform(self.trans, svc).v))
    ELSE Ok(Disable(svc))

\* Transform::new_transform for Condition, its future awaited
Condition_new_transform(self, svc) ==
    IF self.enable
    THEN LET res == Transform_new_transform(self.trans, svc)
         IN  IF res.ok THEN Ok(Enable(res.v)) ELSE Err(res.e)
    ELSE Ok(Disable(svc))

\* Condition::new_transform: how many times self.trans.new_transform is run
Condition_runs_trans(self) == IF self.enable THEN 1 ELSE 0

\* ConditionMiddleware::poll_ready
ConditionMiddleware_poll_ready(self, inner) ==
    IF self.state = "Enable" THEN Service_poll_ready(self.service, inner)
    ELSE Service_poll_ready(self.service, inner)

\* ConditionMiddleware::call, its future awaited
ConditionMiddleware_call(self, r) ==
    IF self.state = "Enable" THEN Service_call(self.service, r)
    ELSE Service_call(self.service, r)

ConditionMiddleware_after_call_fused(self, res) ==
    IF ~res.ok /\ self.state = "Enable" THEN Disable(self.service.service) ELSE self

\* call takes &self: the ConditionMiddleware after a call that gave res
ConditionMiddleware_after_call(self, res) == self

----------------------------------------------------------------------------
(* The serving loop around one ConditionMiddleware *)

InitCondition ==
    /\ HandlerOff
    /\ CompressOff
    /\ ResponderOff
    /\ PipelineOff
    /\ RoundTripOff
    /\ SharedOff
    /\ condition \in {Condition_new(e, t) : e \in BOOLEAN, t \in Transforms}
    /\ dsvc \in Services
    /\ dmw = Unset
    /\ dpc = "new"
    /\ dpoll = NotPolled
    /\ dreq = Unset
    /\ dout = Unset
    /\ dfailed = FALSE
    /\ dran = 0

ConditionNewTransform ==
    /\ dpc = "new"
    /\ dmw' = Condition_new_transform(condition, dsvc)
    /\ dran' = dran + Condition_runs_trans(condition)
    /\ dpc' = IF dmw'.ok THEN "idle" ELSE "failed"
    /\ UNCHANGED <<condition, dsvc, dpoll, dreq, dout, dfailed>>
    /\ UNCHANGED <<hvars, cvars, rvars, pvars, tvars, xvars>>

ConditionPollReady ==
    /\ dpc = "idle"
    /\ \E inner \in Readiness :
          /\ dpoll' = [inner |-> inner,
                       out |-> ConditionMiddleware_poll_ready(dmw.v, inner)]
          /\ dfailed' = (dfailed \/ dpoll'.out = "Ready(Err)")
    /\ UNCHANGED <<condition, dsvc, dmw, dpc, dreq, dout, dran>>
    /\ UNCHANGED <<hvars, cvars, rvars, pvars, tvars, xvars>>

\* ConditionMiddleware::call up to the await: the chosen service is called
ConditionCall ==
    /\ dpc = "idle"
    /\ dpoll.out = "Ready(Ok)"
    /\ \E r \in Paths : dreq' = r
    /\ dpc' = "awaiting"
    /\ UNCHANGED <<condition, dsvc, dmw, dpoll, dout, dfailed, dran>>
    /\ UNCHANGED <<hvars, cvars, rvars, pvars, tvars, xvars>>

ConditionAwait ==
    /\ dpc = "awaiting"
    /\ dout' = ConditionMiddleware_call(dmw.v, dreq)
    /\ dpc' = "done"
    /\ UNCHANGED <<condition, dsvc, dmw, dpoll, dreq, dfailed, dran>>
    /\ UNCHANGED <<hvars, cvars, rvars, pvars, tvars, xvars>>

ConditionFinish ==
    /\ dpc = "done"
    /\ dmw' = Ok(ConditionMiddleware_after_call(dmw.v, dout))
    /\ dfailed' = (dfailed \/ ~dout.ok)
    /\ dreq' = Unset
    /\ dout' = Unset
    /\ dpoll' = NotPolled
    /\ dpc' = "idle"
    /\ UNCHANGED <<condition, dsvc, dran>>
    /\ UNCHANGED <<hvars, cvars, rvars, pvars, tvars, xvars>>

NextCondition ==
    \/ ConditionNewTransform
    \/ ConditionPollReady
    \/ ConditionCall
    \/ ConditionAwait
    \/ ConditionFinish

SpecCondition == InitCondition /\ [][NextCondition]_vars

----------------------------------------------------------------------------
(* Properties of the conditional middleware *)

\* The Condition's future gave a ConditionMiddleware.
Built == dpc \in {"idle", "awaiting", "done"}

\* C18: a Condition made with flag false gives, whatever its Transform, a
\* service whose construction succeeds and whose readiness and output for
\* every request are those of the service it was given.
C18_DisabledIsInner ==
    (dpc \notin {"off", "new"} /\ ~condition.enable) =>
        /\ Built
        /\ dpoll.out = dpoll.inner
        /\ dpc = "done" => dout = Service_call(dsvc, dreq)

C18_Witness ==
    /\ dpc = "done"
    /\ condition = Condition_new(FALSE, "ErrorHandlers")
    /\ dsvc = Plain("srv")
    /\ dout = Ok(HttpResponse(500, "None"))

\* The service the Condition's Transform builds around the given service.
Built_by_trans == Transform_new_transform(condition.trans, dsvc)

\* C19: a Condition made with flag true gives a service whose readiness and
\* output for every request are those of the service its Transform builds
\* around the same service; when that construction fails, so does the
\* Condition's, with the same error.
C19_EnabledIsTransform ==
    (dpc \notin {"off", "new"} /\ condition.enable) =>
        /\ Built <=> Built_by_trans.ok
        /\ ~Built => dmw = Err(Built_by_trans.e)
        /\ (Built /\ dpoll.inner # "None") =>
              dpoll.out = Service_poll_ready(Built_by_trans.v, dpoll.inner)
        /\ dpc = "done" => dout = Service_call(Built_by_trans.v, dreq)

C19_Witness ==
    /\ dpc = "done"
    /\ condition = Condition_new(TRUE, "ErrorHandlers")
    /\ dsvc = Plain("srv")
    /\ dout = Ok(HttpResponse(500, "0001"))

\* C20: a ConditionMiddleware is Enable exactly when its Condition was made
\* with flag true, holding the service built at construction, and stays so
\* through every readiness check, request and failure.
C20_StateFixed ==
    Built =>
        dmw = IF condition.enable THEN Ok(Enable(Built_by_trans.v))
              ELSE Ok(Disable(dsvc))

C20_Witness ==
    /\ dfailed
    /\ dpc = "done"
    /\ dmw.v.state = "Enable"
    /\ dpoll = [inner |-> "Ready(Ok)", out |-> "Ready(Ok)"]
    /\ dout.ok

\* C21: with flag true the inner Transform's construction is run once and
\* its error comes back unchanged as the Condition's, no service being
\* produced; with flag false that construction is never run and the
\* Condition's construction succeeds.
C21_ConstructionError ==
    dpc \notin {"off", "new"} =>
        IF condition.enable
        THEN /\ dran = 1
             /\ ~Built_by_trans.ok =>
                   /\ dmw = Err(Built_by_trans.e)
                   /\ dpc = "failed"
                   /\ dpoll = NotPolled
                   /\ dout = Unset
        ELSE /\ dran = 0
             /\ dmw = Ok(Disable(dsvc))
             /\ dpc # "failed"

C21_Witness ==
    /\ dpc = "failed"
    /\ condition.enable
    /\ dran = 1
    /\ dmw = Err(InitError)

----------------------------------------------------------------------------
(* responder.rs: CustomResponder, the decorator that overrides the status  *)
(* code and adds headers to the response of any responder.                 *)
(*                                                                         *)
(* A HeaderMap gives each header name the sequence of its values, in the   *)
(* order they were added; a name without a value is absent.                *)

MaxCalls == 2

NoneOpt == [some |-> FALSE]
SomeOpt(v) == [some |-> TRUE, v |-> v]

HeaderNames == <<"content-type", "x-version">>

HeaderKeys == {"content-type", "X-Version", "bad name"}

HeaderArgs == {"json", "1.2.3", "bad value"}

Statuses == {404, 201}

InvalidHeaderName == [t |-> "InvalidHeaderName"]
InvalidHeaderValue == [t |-> "InvalidHeaderValue"]

\* HeaderName::try_from(&str): the name in lower case, or an error when the
\* key holds a byte no header name may hold
HeaderName_try_from(key) ==
    CASE key = "content-type" -> Ok("content-type")
      [] key = "X-Version" -> Ok("x-version")
      [] OTHER -> Err(InvalidHeaderName)

\* IntoHeaderValue for &str: the same bytes, or an error when the value
\* holds a byte no header value may hold
try_into(value) ==
    IF value \in {"json", "1.2.3"} THEN Ok(value) ELSE Err(InvalidHeaderValue)

\* Into<HttpError>
HttpError_from(e) == [t |-> "HttpError", cause |-> e]

HeaderMap_new == [n \in {HeaderNames[i] : i \in DOMAIN HeaderNames} |-> <<>>]

\* HeaderMap::append keeps the values the name already has
HeaderMap_append(map, key, value) == [map EXCEPT ![key] = Append(@, value)]

\* HeaderMap::insert removes the values the name already has
HeaderMap_insert(map, key, value) == [map EXCEPT ![key] = <<value>>]

\* Iterating a HeaderMap yields one (name, value) pair per value
RECURSIVE HeaderMap_iter_from(_, _)
HeaderMap_iter_from(map, i) ==
    IF i > Len(HeaderNames) THEN <<>>
    ELSE [j \in 1..Len(map[HeaderNames[i]]) |->
              [k |-> HeaderNames[i], v |-> map[HeaderNames[i]][j]]]
         \o HeaderMap_iter_from(map, i + 1)

HeaderMap_iter(map) == HeaderMap_iter_from(map, 1)

\* Response::build(status).content_type(ct).body(body)
Response_build(status, ct, body) ==
    [status |-> status,
     headers |-> HeaderMap_insert(HeaderMap_new, "content-type", ct),
     body |-> body]

\* Responder for &'static str
str_respond_to(text) == Ok(Response_build(200, "text/plain; charset=utf-8", text))

StrResponder(text) == [t |-> "str", v |-> text]
ErrResponder(e) == [t |-> "Err", e |-> e]

InnerResponders == {StrResponder("test"), ErrResponder(AppError)}

\* T::respond_to of the responder a CustomResponder wraps
Responder_respond_to(val) ==
    IF val.t = "str" THEN str_respond_to(val.v) ELSE Err(Into_Error(val.e))

CustomResponder_new(val) ==
    [responder |-> val, status |-> NoneOpt, headers |-> NoneOpt, error |-> NoneOpt]

with_status(self, status) == [self EXCEPT !.status = SomeOpt(status)]

with_header(self, key, value) ==
    LET this == IF self.headers.some THEN self
                ELSE [self EXCEPT !.headers = SomeOpt(HeaderMap_new)]
        name == HeaderName_try_from(key)
        val == try_into(value)
    IN  IF name.ok
        THEN IF val.ok
             THEN [this EXCEPT !.headers =
                       SomeOpt(HeaderMap_append(this.headers.v, name.v, val.v))]
             ELSE [this EXCEPT !.error = SomeOpt(HttpError_from(val.e))]
        ELSE [this EXCEPT !.error = SomeOpt(HttpError_from(name.e))]

\* respond_to: if let Some(status) = status.take() { *res.status_mut() = status }
apply_status(res, status) ==
    IF status.some THEN [res EXCEPT !.status = status.v] ELSE res

RECURSIVE append_each(_, _)
append_each(map, pairs) ==
    IF pairs = <<>> THEN map
    ELSE append_each(HeaderMap_append(map, Head(pairs).k, Head(pairs).v), Tail(pairs))

apply_headers_append(res, headers) ==
    IF headers.some
    THEN [res EXCEPT !.headers = append_each(@, HeaderMap_iter(headers.v))]
    ELSE res

\* respond_to: for (k, v) in headers { res.headers_mut().insert(k, v) }
RECURSIVE insert_each(_, _)
insert_each(map, pairs) ==
    IF pairs = <<>> THEN map
    ELSE insert_each(HeaderMap_insert(map, Head(pairs).k, Head(pairs).v), Tail(pairs))

apply_headers(res, headers) ==
    IF headers.some
    THEN [res EXCEPT !.headers = insert_each(@, HeaderMap_iter(headers.v))]
    ELSE res

CustomResponder_respond_to(self) ==
    LET inner == Responder_respond_to(self.responder)
    IN  IF ~inner.ok THEN inner
        ELSE Ok(apply_headers(apply_status(inner.v, self.status), self.headers))

InitResponder ==
    /\ HandlerOff
    /\ CompressOff
    /\ ConditionOff
    /\ PipelineOff
    /\ RoundTripOff
    /\ SharedOff
    /\ \E val \in InnerResponders : custom = CustomResponder_new(val)
    /\ rpc = "build"
    /\ rcalls = <<>>
    /\ rout = Unset

WithStatus ==
    /\ rpc = "build"
    /\ Len(rcalls) < MaxCalls
    /\ \E status \in Statuses :
          /\ custom' = with_status(custom, status)
          /\ rcalls' = Append(rcalls, [op |-> "with_status", status |-> status])
    /\ UNCHANGED <<rpc, rout>>
    /\ UNCHANGED <<hvars, cvars, dvars, pvars, tvars, xvars>>

WithHeader ==
    /\ rpc = "build"
    /\ Len(rcalls) < MaxCalls
    /\ \E key \in HeaderKeys, value \in HeaderArgs :
          /\ custom' = with_header(custom, key, value)
          /\ rcalls' = Append(rcalls, [op |-> "with_header", key |-> key,
                                       value |-> value])
    /\ UNCHANGED <<rpc, rout>>
    /\ UNCHANGED <<hvars, cvars, dvars, pvars, tvars, xvars>>

RespondTo ==
    /\ rpc = "build"
    /\ rout' = CustomResponder_respond_to(custom)
    /\ rpc' = "done"
    /\ UNCHANGED <<custom, rcalls>>
    /\ UNCHANGED <<hvars, cvars, dvars, pvars, tvars, xvars>>

NextResponder == WithStatus \/ WithHeader \/ RespondTo

SpecResponder == InitResponder /\ [][NextResponder]_vars

\* the with_header calls made, and those whose key and value both converted
HeaderCalls == {i \in DOMAIN rcalls : rcalls[i].op = "with_header"}

Converted(i) ==
    /\ HeaderName_try_from(rcalls[i].key).ok
    /\ try_into(rcalls[i].value).ok

InnerOk == Responder_respond_to(custom.responder).ok

\* C25: when the key or the value given to with_header does not convert, the
\* failure is surfaced by respond_to: the response is never a normal
\* response that merely lacks the header.
C25_ConversionFailureSurfaced ==
    (rpc = "done" /\ \E i \in HeaderCalls : ~Converted(i)) => ~rout.ok

\* C26: after respond_to every value added with with_header is among the
\* values of its name in the response, several values of one name included.
C26_EveryAddedValuePresent ==
    (rpc = "done" /\ rout.ok) =>
        \A i \in HeaderCalls :
            Converted(i) =>
                \E j \in DOMAIN rout.v.headers[HeaderName_try_from(rcalls[i].key).v] :
                    rout.v.headers[HeaderName_try_from(rcalls[i].key).v][j]
                        = try_into(rcalls[i].value).v

\* the last status given to with_status, and the last value given to
\* with_header under a name
StatusCalls == {i \in DOMAIN rcalls : rcalls[i].op = "with_status"}

Last(S) == CHOOSE i \in S : \A j \in S : j <= i

CallsNaming(n) ==
    {i \in HeaderCalls : Converted(i) /\ HeaderName_try_from(rcalls[i].key).v = n}

\* C27: the response is the inner responder's with the status replaced by
\* the one given to with_status and each name given to with_header holding
\* the decorator's value instead of the inner responder's; the body is the
\* inner responder's.
C27_DecoratorOverrides ==
    (rpc = "done" /\ InnerOk) =>
        LET inner == Responder_respond_to(custom.responder).v
        IN  /\ rout.ok
            /\ rout.v.body = inner.body
            /\ rout.v.status = IF StatusCalls = {} THEN inner.status
                               ELSE rcalls[Last(StatusCalls)].status
            /\ \A n \in DOMAIN inner.headers :
                  rout.v.headers[n] =
                      IF CallsNaming(n) = {} THEN inner.headers[n]
                      ELSE <<try_into(rcalls[Last(CallsNaming(n))].value).v>>

C27_Witness ==
    /\ rpc = "done"
    /\ rcalls = <<[op |-> "with_header", key |-> "content-type", value |-> "json"],
                  [op |-> "with_status", status |-> 404]>>
    /\ rout = Ok([status |-> 404,
                  headers |-> [HeaderMap_new EXCEPT !["content-type"] = <<"json">>],
                  body |-> "test"])

----------------------------------------------------------------------------
(* A chain of wrappers around one service: CompressMiddleware and          *)
(* ConditionMiddleware built by their Transforms, innermost first, and     *)
(* CloneableService (actix-http cloneable.rs) around the whole.  A         *)
(* Condition is applied to the innermost service only.                     *)

MaxLayers == 2

\* CloneableService::new
CloneableService_new(svc) == [rc |-> svc]

CloneableService_poll_ready_always(self, inner) == "Ready(Ok)"

\* CloneableService::poll_ready, given what the service it holds answers
CloneableService_poll_ready(self, inner) == inner

\* CloneableService::call, given the future the service it holds returns
CloneableService_call(self, inner) == inner

Kind(svc) ==
    IF "rc" \in DOMAIN svc THEN "Cloneable"
    ELSE IF "encoding" \in DOMAIN svc THEN "Compress"
    ELSE IF "state" \in DOMAIN svc THEN "Condition"
    ELSE svc.t

Wrappers == {"Cloneable", "Compress", "Condition"}

IsWrapped(svc) == Kind(svc) \in Wrappers \cup {"ErrorHandlers"}

\* The service a wrapper holds
Inner(svc) == IF Kind(svc) = "Cloneable" THEN svc.rc ELSE svc.service

\* The services of a chain, outermost first, the innermost one last
RECURSIVE Layers(_)
Layers(svc) == IF IsWrapped(svc) THEN <<svc>> \o Layers(Inner(svc)) ELSE <<svc>>

\* Service::poll_ready of a service of the chain, given what the innermost
\* service answers
RECURSIVE Chain_poll_ready(_, _)
Chain_poll_ready(svc, base) ==
    CASE Kind(svc) = "Cloneable" ->
             CloneableService_poll_ready(svc, Chain_poll_ready(svc.rc, base))
      [] Kind(svc) = "Compress" ->
             CompressMiddleware_poll_ready(svc, Chain_poll_ready(svc.service, base))
      [] Kind(svc) = "Condition" -> ConditionMiddleware_poll_ready(svc, base)
      [] OTHER -> Service_poll_ready(svc, base)

\* Service::call of a service of the chain, its future awaited
RECURSIVE Chain_call(_, _)
Chain_call(svc, r) ==
    CASE Kind(svc) = "Cloneable" ->
             CloneableService_call(svc, Chain_call(svc.rc, r))
      [] Kind(svc) = "Compress" ->
             CompressMiddleware_respond(Chain_call(svc.service, r),
                                        negotiate(svc, r.accept).encoding)
      [] Kind(svc) = "Condition" -> ConditionMiddleware_call(svc, r.path)
      [] OTHER -> Service_call(svc, r.path)

Pre(d) == [ev |-> "pre", layer |-> d]
Post(d) == [ev |-> "post", layer |-> d]
Received == [ev |-> "S", layer |-> 0]

Wrapper_call_inner_first(d, inner) == inner \o <<Pre(d)>>

\* call of a wrapper up to its await: its own work on the request comes
\* before self.service.call(req)
Wrapper_call(d, inner) == <<Pre(d)>> \o inner

\* the async block of a wrapper's call: the inner future is awaited before
\* the wrapper's own work on the response
Wrapper_await(d, inner) == inner \o <<Post(d)>>

\* Events of Service::call, up to the innermost service receiving the
\* request; d is the position of svc among the transforms' services
RECURSIVE call_events(_, _)
call_events(svc, d) ==
    CASE Kind(svc) = "Cloneable" -> call_events(svc.rc, d)
      [] Kind(svc) \in {"Compress", "Condition", "ErrorHandlers"} ->
             Wrapper_call(d, call_events(svc.service, d + 1))
      [] OTHER -> <<Received>>

\* Events of awaiting the future that call returned
RECURSIVE await_events(_, _)
await_events(svc, d) ==
    CASE Kind(svc) = "Cloneable" -> await_events(svc.rc, d)
      [] Kind(svc) \in {"Compress", "Condition", "ErrorHandlers"} ->
             Wrapper_await(d, await_events(svc.service, d + 1))
      [] OTHER -> <<>>

\* The Transforms applied in a chain
ChainTransforms ==
    {Compress_new(enc) : enc \in {"Auto", "Gzip"}}
        \cup {Condition_new(e, "ErrorHandlers") : e \in BOOLEAN}

\* Transform::new_transform
Chain_new_transform(trans, svc) ==
    IF "enable" \in DOMAIN trans THEN Condition_new_transform(trans, svc)
    ELSE Compress_new_transform(trans, svc)

\* Number of Transforms applied
Depth(svc) ==
    Cardinality({i \in DOMAIN Layers(svc) :
                    Kind(Layers(svc)[i]) \in {"Compress", "Condition"}})

ChainRequests ==
    [path : Paths, accept : {NoHeader, TextHeader(<<<<"gzip">>, <<"br">>>>)}]

NoPoll == [prev |-> "None", base |-> "None", trace |-> <<>>]

InitChain ==
    /\ HandlerOff
    /\ RoundTripOff
    /\ SharedOff
    /\ CompressOff
    /\ ConditionOff
    /\ ResponderOff
    /\ pipe \in Services
    /\ ppc = "build"
    /\ ppoll = NoPoll
    /\ preq = Unset
    /\ plog = <<>>
    /\ pout = Unset

\* App::wrap: one more Transform around the chain
ChainWrap ==
    /\ ppc = "build"
    /\ Depth(pipe) < MaxLayers
    /\ \E trans \in ChainTransforms :
          /\ "enable" \in DOMAIN trans => Depth(pipe) = 0
          /\ pipe' = Chain_new_transform(trans, pipe).v
    /\ UNCHANGED <<ppc, ppoll, preq, plog, pout>>
    /\ UNCHANGED <<hvars, cvars, dvars, rvars, tvars, xvars>>

\* The chain is handed to the dispatcher, as it is or in a CloneableService
ChainServe ==
    /\ ppc = "build"
    /\ Depth(pipe) > 0
    /\ pipe' \in {pipe, CloneableService_new(pipe)}
    /\ ppc' = "idle"
    /\ UNCHANGED <<ppoll, preq, plog, pout>>
    /\ UNCHANGED <<hvars, cvars, dvars, rvars, tvars, xvars>>

ChainPollReady ==
    /\ ppc = "idle"
    /\ \E base \in Readiness :
          ppoll' = [prev |-> IF ppoll.trace = <<>> THEN "None" ELSE ppoll.trace[1],
                    base |-> base,
                    trace |-> [i \in DOMAIN Layers(pipe) |->
                                  Chain_poll_ready(Layers(pipe)[i], base)]]
    /\ UNCHANGED <<pipe, ppc, preq, plog, pout>>
    /\ UNCHANGED <<hvars, cvars, dvars, rvars, tvars, xvars>>

ChainCall ==
    /\ ppc = "idle"
    /\ ppoll.trace # <<>>
    /\ ppoll.trace[1] = "Ready(Ok)"
    /\ \E r \in ChainRequests : preq' = r
    /\ plog' = call_events(pipe, 1)
    /\ ppc' = "awaiting"
    /\ UNCHANGED <<pipe, ppoll, pout>>
    /\ UNCHANGED <<hvars, cvars, dvars, rvars, tvars, xvars>>

ChainAwait ==
    /\ ppc = "awaiting"
    /\ pout' = Chain_call(pipe, preq)
    /\ plog' = plog \o await_events(pipe, 1)
    /\ ppc' = "done"
    /\ UNCHANGED <<pipe, ppoll, preq>>
    /\ UNCHANGED <<hvars, cvars, dvars, rvars, tvars, xvars>>

ChainFinish ==
    /\ ppc = "done"
    /\ preq' = Unset
    /\ plog' = <<>>
    /\ pout' = Unset
    /\ ppoll' = [NoPoll EXCEPT !.prev = ppoll.trace[1]]
    /\ ppc' = "idle"
    /\ UNCHANGED pipe
    /\ UNCHANGED <<hvars, cvars, dvars, rvars, tvars, xvars>>

NextChain ==
    \/ ChainWrap
    \/ ChainServe
    \/ ChainPollReady
    \/ ChainCall
    \/ ChainAwait
    \/ ChainFinish

SpecChain == InitChain /\ [][NextChain]_vars

Polled == ppc \notin {"off", "build"} /\ ppoll.trace # <<>>

\* C22: at every poll_ready a ConditionMiddleware (in either state), a
\* CompressMiddleware and a CloneableService answer what the service they
\* hold answers at that poll, so the chain answers Ready(Ok) only when the
\* innermost service does and an answer of an earlier poll is never reused.
C22_ReadinessForwarded ==
    Polled =>
        /\ \A i \in 1..(Len(Layers(pipe)) - 1) :
              Kind(Layers(pipe)[i]) \in Wrappers =>
                  ppoll.trace[i] = ppoll.trace[i + 1]
        /\ ppoll.trace[Len(ppoll.trace)] = ppoll.base
        /\ ppoll.trace[1] = "Ready(Ok)" => ppoll.base = "Ready(Ok)"

C22_Witness ==
    /\ Polled
    /\ {Kind(Layers(pipe)[i]) : i \in DOMAIN Layers(pipe)} \cap Wrappers = Wrappers
    /\ ppoll.prev = "Ready(Ok)"
    /\ ppoll.base = "Pending"
    /\ ppoll.trace[1] = "Pending"

\* The transforms' services of the chain, outermost first
TransformLayers ==
    SelectSeq(Layers(pipe),
              LAMBDA l : Kind(l) \in {"Compress", "Condition", "ErrorHandlers"})

\* C23: the events of one request through a chain are the pre-processing
\* of each transform from the outermost to the innermost, then the service
\* receiving the request, then the post-processing of each transform from
\* the innermost to the outermost.
C23_OnionOrder ==
    ppc = "done" =>
        LET n == Len(TransformLayers)
        IN  /\ Len(plog) = 2 * n + 1
            /\ \A i \in 1..n : plog[i] = Pre(i)
            /\ plog[n + 1] = Received
            /\ \A i \in 1..n : plog[n + 1 + i] = Post(n + 1 - i)

C23_Witness ==
    /\ ppc = "done"
    /\ Kind(pipe) = "Compress"
    /\ Kind(pipe.service) = "Compress"
    /\ pout.ok
    /\ plog = <<Pre(1), Pre(2), Received, Post(2), Post(1)>>

----------------------------------------------------------------------------
(* types/form.rs: Form as a responder, and its body read back as a Form.  *)
(* A value of the structure has the one field hello; its serialization is *)
(* the token of the key followed by the bytes of the field.               *)

FormValues ==
    {[hello |-> d] : d \in SeqsUpTo({"h", "B"}, MaxChunks)}
        \cup {[nested |-> [hello |-> <<>>]]}

SerializeError == [t |-> "Serialize"]

to_string_without_key(v) ==
    IF "hello" \in DOMAIN v THEN Ok(v.hello) ELSE Err(SerializeError)

\* serde_urlencoded::to_string
to_string(v) ==
    IF "hello" \in DOMAIN v THEN Ok(<<"h">> \o v.hello) ELSE Err(SerializeError)

\* Responder for Form<T>
Form_respond_to(v) ==
    IF to_string(v).ok
    THEN Ok(Response_build(200, "application/x-www-form-urlencoded", to_string(v).v))
    ELSE Err(Error_from(to_string(v).e))

\* The ways the body reaches the extractor: in one chunk, or a chunk a token
Splits(data) ==
    {<<DataChunk(data)>>, [i \in DOMAIN data |-> DataChunk(<<data[i]>>)]}

\* The request carrying the response's content type and, if declared, the
\* length of its body
RequestOf(res, declared, app) ==
    [content_type |-> [mime |-> res.headers["content-type"][1], charset |-> "none"],
     content_length |-> IF declared THEN NumLen(Size(res.body)) ELSE NoLen,
     app_data |-> app]

InitRoundTrip ==
    /\ HandlerOff
    /\ CompressOff
    /\ ConditionOff
    /\ ResponderOff
    /\ PipelineOff
    /\ SharedOff
    /\ form \in [v : FormValues, app_data : AppDatas]
    /\ tpc = "value"
    /\ tresp = Unset
    /\ tback = Unset

FormRespond ==
    /\ tpc = "value"
    /\ tresp' = Form_respond_to(form.v)
    /\ tpc' = "responded"
    /\ UNCHANGED <<form, tback>>
    /\ UNCHANGED <<hvars, cvars, dvars, rvars, pvars, xvars>>

FormExtract ==
    /\ tpc = "responded"
    /\ tresp.ok
    /\ \E declared \in BOOLEAN, cs \in Splits(tresp.v.body) :
          tback' = [req |-> RequestOf(tresp.v, declared, form.app_data),
                    node |-> Form_from_request(
                                 RequestOf(tresp.v, declared, form.app_data),
                                 PayloadStream(cs))]
    /\ tpc' = "extracted"
    /\ UNCHANGED <<form, tresp>>
    /\ UNCHANGED <<hvars, cvars, dvars, rvars, pvars, xvars>>

NextRoundTrip == FormRespond \/ FormExtract

SpecRoundTrip == InitRoundTrip /\ [][NextRoundTrip]_vars

----------------------------------------------------------------------------
(* actix-http cloneable.rs with middleware/compress.rs and                *)
(* middleware/condition.rs: one middleware service behind the handles of  *)
(* a CloneableService, and the futures its calls return.  The heap holds  *)
(* the services by address; an Rc is an address.  The service under the   *)
(* middleware counts the requests in flight and logs what it receives.    *)

MaxInFlight == 2
MaxClones == 2

SharedRequests ==
    [accept : {NoHeader, TextHeader(<<<<"br">>, <<"gzip", "q=0.5">>>>)}]

\* The service under the middleware
Counting == [inflight |-> 0, received |-> <<>>]

Counting_poll_ready(self) ==
    IF self.inflight < MaxInFlight THEN "Ready(Ok)" ELSE "Pending"

\* What the service is handed, and what the caller had settled by then
Counting_call(self, r, settled) ==
    [self EXCEPT !.inflight = @ + 1,
                 !.received = Append(@, [req |-> r, settled |-> settled])]

Counting_release(self) == [self EXCEPT !.inflight = @ - 1]

Middlewares ==
    {[mw |-> "Compress", encoding |-> e, service |-> Counting] : e \in {"Auto", "Gzip"}}
        \cup {[mw |-> m, encoding |-> "None", service |-> Counting] : m \in {"Enable", "Disable"}}

PendingFuture(at, r, enc) ==
    [at |-> at, req |-> r, encoding |-> enc, st |-> "pending", out |-> Unset]

CompressMiddleware_call_deferred(self, at, r) ==
    [svc |-> self, fut |-> PendingFuture(at, r, negotiate(self, r.accept).encoding)]

\* CompressMiddleware::call up to the async block it returns
CompressMiddleware_call_now(self, at, r) ==
    LET enc == negotiate(self, r.accept).encoding
    IN  [svc |-> [self EXCEPT !.service = Counting_call(@, r, enc)],
         fut |-> PendingFuture(at, r, enc)]

\* ConditionMiddleware::call up to the async block it returns
ConditionMiddleware_call_now(self, at, r) ==
    IF self.mw = "Enable"
    THEN [svc |-> [self EXCEPT !.service = Counting_call(@, r, "None")],
          fut |-> PendingFuture(at, r, "None")]
    ELSE [svc |-> [self EXCEPT !.service = Counting_call(@, r, "None")],
          fut |-> PendingFuture(at, r, "None")]

\* T::call of the service a CloneableService holds
Held_call(self, at, r) ==
    IF self.mw = "Compress" THEN CompressMiddleware_call_now(self, at, r)
    ELSE ConditionMiddleware_call_now(self, at, r)

\* T::poll_ready of the service a CloneableService holds
Held_poll_ready(self) ==
    IF self.mw = "Compress"
    THEN CompressMiddleware_poll_ready(self, Counting_poll_ready(self.service))
    ELSE Counting_poll_ready(self.service)

\* The async block of call, polled when the inner future has resolved to res
Future_poll(self, fut, res) ==
    [fut EXCEPT !.st = "done",
                !.out = IF self.mw = "Compress"
                        THEN CompressMiddleware_respond(res, fut.encoding)
                        ELSE res]

\* Rc::new
Rc_new(h, v) == [heap |-> Append(h, v), ptr |-> Len(h) + 1]

CloneableService_clone_deep(h, self) ==
    [heap |-> Append(h, h[self.rc]), handle |-> [rc |-> Len(h) + 1]]

\* Clone for CloneableService: Rc::clone
CloneableService_clone(h, self) == [heap |-> h, handle |-> [rc |-> self.rc]]

InitShared ==
    /\ HandlerOff
    /\ CompressOff
    /\ ConditionOff
    /\ ResponderOff
    /\ PipelineOff
    /\ RoundTripOff
    /\ \E m \in Middlewares :
          /\ heap = Rc_new(<<>>, m).heap
          /\ handles = <<CloneableService_new(Rc_new(<<>>, m).ptr)>>
    /\ polls = <<"None">>
    /\ futs = <<>>

SharedClone ==
    /\ Len(handles) <= MaxClones
    /\ \E h \in DOMAIN handles :
          /\ heap' = CloneableService_clone(heap, handles[h]).heap
          /\ handles' = Append(handles, CloneableService_clone(heap, handles[h]).handle)
    /\ polls' = Append(polls, "None")
    /\ UNCHANGED futs
    /\ UNCHANGED <<hvars, cvars, dvars, rvars, pvars, tvars>>

SharedPollReady ==
    /\ \E h \in DOMAIN handles :
          polls' = [polls EXCEPT ![h] =
                      CloneableService_poll_ready(handles[h],
                                                  Held_poll_ready(heap[handles[h].rc]))]
    /\ UNCHANGED <<heap, handles, futs>>
    /\ UNCHANGED <<hvars, cvars, dvars, rvars, pvars, tvars>>

SharedCall ==
    /\ Len(futs) < MaxInFlight
    /\ \E h \in DOMAIN handles, accept \in SharedRequests :
          LET r == [id |-> Len(futs) + 1, accept |-> accept.accept]
              at == handles[h].rc
              called == Held_call(heap[at], at, r)
          IN  /\ heap' = [heap EXCEPT ![at] = called.svc]
              /\ futs' = Append(futs, CloneableService_call(handles[h], called.fut))
    /\ UNCHANGED <<handles, polls>>
    /\ UNCHANGED <<hvars, cvars, dvars, rvars, pvars, tvars>>

SharedPollFuture ==
    /\ \E i \in DOMAIN futs, res \in {Ok(InnerResponse(NoEncoding)), Err(AppError)} :
          /\ futs[i].st = "pending"
          /\ futs' = [futs EXCEPT ![i] = Future_poll(heap[futs[i].at], @, res)]
          /\ heap' = [heap EXCEPT ![futs[i].at].service = Counting_release(@)]
    /\ UNCHANGED <<handles, polls>>
    /\ UNCHANGED <<hvars, cvars, dvars, rvars, pvars, tvars>>

SharedDropFuture ==
    /\ \E i \in DOMAIN futs :
          /\ futs[i].st = "pending"
          /\ futs' = [futs EXCEPT ![i].st = "dropped"]
          /\ heap' = [heap EXCEPT ![futs[i].at].service = Counting_release(@)]
    /\ UNCHANGED <<handles, polls>>
    /\ UNCHANGED <<hvars, cvars, dvars, rvars, pvars, tvars>>

NextShared ==
    \/ SharedClone
    \/ SharedPollReady
    \/ SharedCall
    \/ SharedPollFuture
    \/ SharedDropFuture

SpecShared == InitShared /\ [][NextShared]_vars

\* Every handle holds the address of the one service built by new
SameInstance ==
    /\ Len(heap) = 1
    /\ \A h \in DOMAIN handles : handles[h].rc = handles[1].rc

\* A poll_ready through any handle answers what the one service answers,
\* and a call through any handle is received by the one service
ForwardedToIt ==
    /\ \A h \in DOMAIN polls :
          polls'[h] # polls[h] => polls'[h] = Held_poll_ready(heap'[handles[1].rc])
    /\ Len(futs') > Len(futs) =>
          LET fut == futs'[Len(futs')]
          IN  heap'[handles[1].rc].service =
                  Counting_call(heap[handles[1].rc].service, fut.req, fut.encoding)

\* C32: every clone of a CloneableService forwards poll_ready and call to
\* one and the same underlying service; cloning builds or copies no
\* service, so a change of its state made through one clone is what every
\* other clone observes, in any interleaving of clones, polls and calls.
C32_ClonesShareOneService == []SameInstance /\ [][ForwardedToIt]_vars

C32_Witness ==
    /\ Len(handles) = 3
    /\ Len(futs) = 2
    /\ heap[handles[3].rc].service.inflight = 1
    /\ Len(heap[handles[2].rc].service.received) = 2
    /\ polls[1] = "Ready(Ok)"
    /\ polls[3] = "Pending"

\* The futures returned by the calls made on the service at address a
FuturesOf(a) == SelectSeq(futs, LAMBDA f : f.at = a)

\* C39: the service under a ConditionMiddleware or a CompressMiddleware has
\* received the request of every call made so far, once each and in the
\* order of the calls, whether the returned futures are still unpolled,
\* resolved or dropped, and in whatever order that happened; what a
\* CompressMiddleware negotiated for a request was settled when the
\* service received it.
C39_InnerCalledAtCall ==
    \A a \in DOMAIN heap :
        LET got == heap[a].service.received
            mine == FuturesOf(a)
        IN  /\ Len(got) = Len(mine)
            /\ \A j \in DOMAIN got :
                  /\ got[j].req = mine[j].req
                  /\ got[j].settled = mine[j].encoding
                  /\ heap[a].mw = "Compress" =>
                        got[j].settled = negotiate(heap[a], got[j].req.accept).encoding

C39_Witness ==
    /\ Len(futs) = 2
    /\ heap[1].mw = "Compress"
    /\ heap[1].encoding = "Auto"
    /\ futs[1].st = "pending"
    /\ futs[1].encoding = "Identity"
    /\ futs[2].st = "done"
    /\ futs[2].out.ok
    /\ futs[2].out.v.body.encoder = "Br"
    /\ heap[1].service.received[2].settled = "Br"

C39_WitnessDropped ==
    /\ Len(futs) = 2
    /\ heap[1].mw = "Enable"
    /\ futs[1].st = "dropped"
    /\ futs[2].st = "pending"
    /\ heap[1].service.received[1].req.id = 1
    /\ heap[1].service.received[2].req.id = 2

====
